---- MODULE Spec2Model ----
(***************************************************************************)
(* Restaurant database CLI (cli.py, database.py, seed_data.py).            *)
(*                                                                         *)
(* Text values that the program compares or hands to SQLite (dates and     *)
(* times typed on the command line) are sequences of ASCII codes, so that  *)
(* strptime's parsing, SQLite's time() and SQLite's text ordering are      *)
(* computed as the program computes them.  Money is in cents.              *)
(***************************************************************************)
EXTENDS Integers, Sequences, FiniteSets, TLC

VARIABLES
    reservations,   \* rows of table reservations, in reservation_id order
    orders,         \* rows of table orders, in order_id order
    order_items,    \* rows of table order_items, in order_item_id order
    menu_items,     \* rows of table menu_items, in item_id order
    outcome,        \* how the last command invocation ended
    pc,             \* per connection: where its command stands
    cmd,            \* per connection: the command it runs and its inputs
    view,           \* per connection: its uncommitted transaction
    lock,           \* the connection holding SQLite's write lock, 0 if none
    result,         \* per connection: how its last command ended
    seed_runs,      \* number of seed_database runs started
    db_file,        \* the database file: "missing", "corrupt" or "ready"
    inv,            \* the command invocation under way and where it stands
    handles         \* the connections opened by that invocation, in order

(***************************************************************************)
(* Bounds of the model.                                                    *)
(***************************************************************************)
MaxRes == 2
MaxOrders == 2
MaxItems == 2
MaxMenu == 3
MaxRows == 4
MaxSeedRuns == 1
MaxReportOrders == 3
MaxDays == 2
MaxDraws == 2

(***************************************************************************)
(* Text helpers.                                                           *)
(***************************************************************************)
NULL == <<>>

IsDigit(c) == c >= 48 /\ c <= 57

AllDigits(s) == \A i \in 1..Len(s) : IsDigit(s[i])

RECURSIVE Num(_)
Num(s) == IF Len(s) = 0 THEN 0
          ELSE 10 * Num(SubSeq(s, 1, Len(s) - 1)) + (s[Len(s)] - 48)

\* SQLite BINARY collation: memcmp over the common prefix, then the shorter
\* text sorts first.  -1, 0, 1 for a < b, a = b, a > b.
RECURSIVE TextCmp(_, _, _)
TextCmp(a, b, i) ==
    IF i > Len(a) /\ i > Len(b) THEN 0
    ELSE IF i > Len(a) THEN -1
    ELSE IF i > Len(b) THEN 1
    ELSE IF a[i] < b[i] THEN -1
    ELSE IF a[i] > b[i] THEN 1
    ELSE TextCmp(a, b, i + 1)

\* x BETWEEN lo AND hi on text; a NULL operand makes the predicate NULL,
\* which a WHERE clause treats as not true.
sql_between(x, lo, hi) ==
    IF x = NULL \/ lo = NULL \/ hi = NULL THEN FALSE
    ELSE TextCmp(lo, x, 1) <= 0 /\ TextCmp(x, hi, 1) <= 0

\* Positions of separator c in s.
SepAt(s, c) == {i \in 1..Len(s) : s[i] = c}

(***************************************************************************)
(* datetime.strptime(time_str, "%H:%M"): one or two digits, a colon, one   *)
(* or two digits; hour 0..23, minute 0..59.                                *)
(***************************************************************************)
strptime_time(s) ==
    LET cs == SepAt(s, 58) IN
    IF Cardinality(cs) # 1 THEN [ok |-> FALSE, minutes |-> 0]
    ELSE LET p  == CHOOSE i \in cs : TRUE
             hh == SubSeq(s, 1, p - 1)
             mm == SubSeq(s, p + 1, Len(s))
         IN  IF /\ Len(hh) \in 1..2 /\ Len(mm) \in 1..2
                /\ AllDigits(hh) /\ AllDigits(mm)
                /\ Num(hh) <= 23 /\ Num(mm) <= 59
             THEN [ok |-> TRUE, minutes |-> 60 * Num(hh) + Num(mm)]
             ELSE [ok |-> FALSE, minutes |-> 0]

(***************************************************************************)
(* datetime.strptime(date_str, "%Y-%m-%d").date(): four digits, then month *)
(* and day of one or two digits; the date must exist.                      *)
(***************************************************************************)
DaysIn(y, m) ==
    IF m \in {4, 6, 9, 11} THEN 30
    ELSE IF m = 2 THEN (IF y % 4 = 0 /\ (y % 100 # 0 \/ y % 400 = 0) THEN 29 ELSE 28)
    ELSE 31

strptime_date(s) ==
    LET ds  == SepAt(s, 45)
        bad == [ok |-> FALSE, date |-> <<0, 0, 0>>]
    IN
    IF Cardinality(ds) # 2 THEN bad
    ELSE LET p1 == CHOOSE i \in ds : \A j \in ds : i <= j
             p2 == CHOOSE i \in ds : \A j \in ds : i >= j
             yy == SubSeq(s, 1, p1 - 1)
             mm == SubSeq(s, p1 + 1, p2 - 1)
             dd == SubSeq(s, p2 + 1, Len(s))
         IN  IF /\ Len(yy) = 4 /\ Len(mm) \in 1..2 /\ Len(dd) \in 1..2
                /\ AllDigits(yy) /\ AllDigits(mm) /\ AllDigits(dd)
                /\ Num(yy) >= 1
                /\ Num(mm) \in 1..12
                /\ Num(dd) >= 1 /\ Num(dd) <= DaysIn(Num(yy), Num(mm))
             THEN [ok |-> TRUE, date |-> <<Num(yy), Num(mm), Num(dd)>>]
             ELSE bad

\* date.__lt__
DateLT(a, b) ==
    \/ a[1] < b[1]
    \/ a[1] = b[1] /\ a[2] < b[2]
    \/ a[1] = b[1] /\ a[2] = b[2] /\ a[3] < b[3]

\* date.today()
Today == <<2025, 6, 1>>

(***************************************************************************)
(* SQLite time(text, '+N minutes'): the text must be HH:MM with exactly    *)
(* two digits each, otherwise the result is NULL; the result is rendered   *)
(* as HH:MM:SS and wraps around midnight.                                  *)
(***************************************************************************)
sqlite_time(s, delta) ==
    IF /\ Len(s) = 5
       /\ IsDigit(s[1]) /\ IsDigit(s[2]) /\ s[3] = 58
       /\ IsDigit(s[4]) /\ IsDigit(s[5])
       /\ Num(SubSeq(s, 1, 2)) <= 24 /\ Num(SubSeq(s, 4, 5)) <= 59
    THEN LET t == (60 * Num(SubSeq(s, 1, 2)) + Num(SubSeq(s, 4, 5)) + delta + 1440) % 1440
             h == t \div 60
             m == t % 60
         IN  <<48 + (h \div 10), 48 + (h % 10), 58,
               48 + (m \div 10), 48 + (m % 10), 58, 48, 48>>
    ELSE NULL

(***************************************************************************)
(* Rows present before any command runs: customers, tables.                *)
(***************************************************************************)
customers == {1}

\* table_id -> capacity (generate_tables: T01 seats 2, T05 seats 4)
tables == (1 :> 4) @@ (2 :> 2)

(***************************************************************************)
(* Command-line inputs tried by the model.                                 *)
(***************************************************************************)
\* "2025-05-31" (yesterday), "2025-06-01" (today), "2025-06-02",
\* "2025-6-1" (today, not zero-padded)
Yesterday  == <<50,48,50,53,45,48,53,45,51,49>>
TodayStr   == <<50,48,50,53,45,48,54,45,48,49>>
Tomorrow   == <<50,48,50,53,45,48,54,45,48,50>>
TodayShort == <<50,48,50,53,45,54,45,49>>

\* "18:00", "18:10", "19:10", "23:30", "1:30", "24:00"
T1800 == <<49,56,58,48,48>>
T1810 == <<49,56,58,49,48>>
T1910 == <<49,57,58,49,48>>
T2330 == <<50,51,58,51,48>>
T0130 == <<49,58,51,48>>
T2400 == <<50,52,58,48,48>>

Req(c, t, d, tm, p) ==
    [customer_id |-> c, table_id |-> t, date_str |-> d, time_str |-> tm,
     party_size |-> p, notes |-> NULL]

\* Requests that pass every check before the conflict query.
GoodRequests ==
    {Req(1, 1, TodayStr, tm, 3) : tm \in {T1800, T1810, T1910, T2330, T0130}}
    \cup {Req(1, 1, d, T1800, 3) : d \in {Tomorrow, TodayShort}}
    \cup {Req(1, 2, TodayStr, tm, 3) : tm \in {T1800, T1810}}

\* Requests that violate any combination of the checks.
BadRequests ==
    {Req(c, t, d, tm, p) : c \in {1, 9}, t \in {1, 9}, d \in {Yesterday, TodayStr},
                           tm \in {T1800, T2400}, p \in {0, 3}}

Requests == GoodRequests \cup BadRequests

(***************************************************************************)
(* cli.py create_reservation.  confirm is the operator's answer to         *)
(* "Continue anyway?".  The result carries how the command ended, the      *)
(* reservations table afterwards and the number of INSERT statements that  *)
(* were executed.                                                          *)
(***************************************************************************)
BlockingStatuses == {"Confirmed", "Seated"}

\* SELECT reservation_id FROM reservations WHERE table_id = ? AND
\* reservation_date = ? AND reservation_time BETWEEN time(?, '-1 hour') AND
\* time(?, '+1 hour') AND status IN ('Confirmed', 'Seated')
conflict_rows(rows, table_id, date_str, time_str) ==
    {i \in DOMAIN rows :
        /\ rows[i].table_id = table_id
        /\ rows[i].reservation_date = date_str
        /\ sql_between(rows[i].reservation_time,
                       sqlite_time(time_str, -60), sqlite_time(time_str, 60))
        /\ rows[i].status \in BlockingStatuses}

\* tables.is_active: no command writes it, every table keeps the value it
\* was inserted with.
is_active == [t \in DOMAIN tables |-> TRUE]

\* ORDER BY t.location, t.capacity; the tables here share one location.
RECURSIVE by_capacity(_)
by_capacity(ts) ==
    IF ts = {} THEN <<>>
    ELSE LET m == CHOOSE t \in ts :
                    \A u \in ts \ {t} :
                       tables[t] < tables[u] \/ (tables[t] = tables[u] /\ t < u)
         IN  <<m>> \o by_capacity(ts \ {m})

\* view_available_tables with a subquery that leaves the status out.
view_available_tables_any_status(rows, date_str, time_str) ==
    IF ~(strptime_date(date_str).ok /\ strptime_time(time_str).ok)
    THEN [outcome |-> "InvalidFormat", listing |-> <<>>]
    ELSE LET reserved == {rows[i].table_id : i \in
                            {i \in DOMAIN rows :
                               /\ rows[i].reservation_date = date_str
                               /\ sql_between(rows[i].reservation_time,
                                              sqlite_time(time_str, -60),
                                              sqlite_time(time_str, 60))}}
         IN  [outcome |-> "Listed",
              listing |-> by_capacity({t \in DOMAIN tables :
                                         is_active[t] /\ t \notin reserved})]

\* view_available_tables: the format check, then SELECT ... FROM tables t
\* WHERE t.is_active = 1 AND t.table_id NOT IN (SELECT r.table_id FROM
\* reservations r WHERE r.reservation_date = ? AND r.reservation_time
\* BETWEEN time(?, '-1 hour') AND time(?, '+1 hour') AND r.status IN
\* ('Confirmed', 'Seated')) ORDER BY t.location, t.capacity
view_available_tables(rows, date_str, time_str) ==
    IF ~(strptime_date(date_str).ok /\ strptime_time(time_str).ok)
    THEN [outcome |-> "InvalidFormat", listing |-> <<>>]
    ELSE LET reserved == {rows[i].table_id : i \in
                            {i \in DOMAIN rows :
                               /\ rows[i].reservation_date = date_str
                               /\ sql_between(rows[i].reservation_time,
                                              sqlite_time(time_str, -60),
                                              sqlite_time(time_str, 60))
                               /\ rows[i].status \in {"Confirmed", "Seated"}}}
         IN  [outcome |-> "Listed",
              listing |-> by_capacity({t \in DOMAIN tables :
                                         is_active[t] /\ t \notin reserved})]

\* INSERT INTO reservations (customer_id, table_id, reservation_date,
\* reservation_time, party_size, special_requests); status takes the
\* column default.
insert_reservation(rows, req) ==
    Append(rows, [customer_id      |-> req.customer_id,
                  table_id         |-> req.table_id,
                  reservation_date |-> req.date_str,
                  reservation_time |-> req.time_str,
                  party_size       |-> req.party_size,
                  status           |-> "Confirmed",
                  special_requests |-> req.notes])

\* create_reservation with the party-size check moved behind the customer
\* and table lookups.
create_reservation_lookup_first(rows, req, confirm) ==
    LET pd == strptime_date(req.date_str)
        pt == strptime_time(req.time_str)
        fail(o) == [outcome |-> o, reservations |-> rows, writes |-> 0]
    IN
    IF ~pd.ok \/ ~pt.ok THEN fail("InvalidFormat")
    ELSE IF DateLT(pd.date, Today) THEN fail("PastDate")
    ELSE IF req.customer_id \notin customers THEN fail("CustomerNotFound")
    ELSE IF req.table_id \notin DOMAIN tables THEN fail("TableNotFound")
    ELSE IF req.party_size < 1 THEN fail("InvalidPartySize")
    ELSE IF req.party_size > tables[req.table_id] /\ ~confirm THEN fail("Declined")
    ELSE IF conflict_rows(rows, req.table_id, req.date_str, req.time_str) # {}
         THEN fail("SlotConflict")
    ELSE [outcome |-> "Created",
          reservations |-> insert_reservation(rows, req),
          writes |-> 1]

\* cli.py:169-182, the checks made before a connection is opened.
check_arguments(req) ==
    LET pd == strptime_date(req.date_str)
        pt == strptime_time(req.time_str)
    IN
    IF ~pd.ok \/ ~pt.ok THEN "InvalidFormat"
    ELSE IF DateLT(pd.date, Today) THEN "PastDate"
    ELSE IF req.party_size < 1 THEN "InvalidPartySize"
    ELSE "ok"

\* The lookups if the capacity warning were not followed by a prompt.
check_lookups_no_prompt(req, confirm) ==
    IF req.customer_id \notin customers THEN "CustomerNotFound"
    ELSE IF req.table_id \notin DOMAIN tables THEN "TableNotFound"
    ELSE "ok"

\* cli.py:185-202, the customer and table lookups and the capacity warning.
check_lookups(req, confirm) ==
    IF req.customer_id \notin customers THEN "CustomerNotFound"
    ELSE IF req.table_id \notin DOMAIN tables THEN "TableNotFound"
    ELSE IF req.party_size > tables[req.table_id] /\ ~confirm THEN "Declined"
    ELSE "ok"

create_reservation(rows, req, confirm) ==
    LET fail(o) == [outcome |-> o, reservations |-> rows, writes |-> 0]
    IN
    IF check_arguments(req) # "ok" THEN fail(check_arguments(req))
    ELSE IF check_lookups(req, confirm) # "ok" THEN fail(check_lookups(req, confirm))
    ELSE IF conflict_rows(rows, req.table_id, req.date_str, req.time_str) # {}
         THEN fail("SlotConflict")
    ELSE [outcome |-> "Created",
          reservations |-> insert_reservation(rows, req),
          writes |-> 1]

(***************************************************************************)
(* Rows present before any command runs: employees, categories.            *)
(***************************************************************************)
\* employee_id -> role
employees == (1 :> "Server") @@ (2 :> "Cook")

categories == {1}

\* An optional command-line value: None is <<>>, a supplied value x is <<x>>.
None == <<>>

Some(x) == <<x>>

(***************************************************************************)
(* Schema behaviour the commands rely on: column defaults, foreign keys    *)
(* and the recomputation of an order's amounts when its items change.      *)
(***************************************************************************)
TaxRatePct == 8

RECURSIVE ItemsSubtotal(_, _)
ItemsSubtotal(items, order_id) ==
    IF Len(items) = 0 THEN 0
    ELSE (IF items[Len(items)].order_id = order_id
          THEN items[Len(items)].quantity * items[Len(items)].unit_price
          ELSE 0)
         + ItemsSubtotal(SubSeq(items, 1, Len(items) - 1), order_id)

recompute_order(ords, items, order_id) ==
    LET sub == ItemsSubtotal(items, order_id)
        tax == (sub * TaxRatePct) \div 100
    IN  [ords EXCEPT ![order_id].subtotal = sub,
                     ![order_id].tax = tax,
                     ![order_id].total = sub + tax + ords[order_id].tip]

\* The foreign keys of an orders row: customer and table may be NULL.
orders_fk_ok(req) ==
    /\ (req.table_id = None \/ req.table_id[1] \in DOMAIN tables)
    /\ (req.customer_id = None \/ req.customer_id[1] \in customers)

(***************************************************************************)
(* cli.py create_order.                                                    *)
(***************************************************************************)
OrderTypes == {"Dine-In", "Takeout", "Bar"}

insert_order(ords, req) ==
    Append(ords, [customer_id |-> req.customer_id,
                  employee_id |-> req.employee_id,
                  table_id    |-> req.table_id,
                  order_type  |-> req.order_type,
                  status      |-> "Open",
                  order_date  |-> TodayStr,
                  subtotal |-> 0, tax |-> 0, tip |-> 0, total |-> 0])

\* create_order refusing employees whose role is not Server, Bartender or
\* Manager instead of warning.
create_order_role_enforced(ords, req) ==
    LET fail(o, w) == [outcome |-> o, orders |-> ords, writes |-> w, warned |-> FALSE]
    IN
    IF req.order_type \notin OrderTypes THEN fail("InvalidOrderType", 0)
    ELSE IF req.employee_id \notin DOMAIN employees THEN fail("EmployeeNotFound", 0)
    ELSE IF employees[req.employee_id] \notin {"Server", "Bartender", "Manager"}
    THEN fail("EmployeeNotFound", 0)
    ELSE IF ~orders_fk_ok(req) THEN fail("DatabaseError", 1)
    ELSE [outcome |-> "OrderCreated",
          orders  |-> insert_order(ords, req),
          writes  |-> 1,
          warned  |-> FALSE]

create_order(ords, req) ==
    LET fail(o, w) == [outcome |-> o, orders |-> ords, writes |-> w, warned |-> FALSE]
    IN
    IF req.order_type \notin OrderTypes THEN fail("InvalidOrderType", 0)
    ELSE IF req.employee_id \notin DOMAIN employees THEN fail("EmployeeNotFound", 0)
    ELSE IF ~orders_fk_ok(req) THEN fail("DatabaseError", 1)
    ELSE [outcome |-> "OrderCreated",
          orders  |-> insert_order(ords, req),
          writes  |-> 1,
          warned  |-> employees[req.employee_id] \notin {"Server", "Bartender", "Manager"}]

(***************************************************************************)
(* cli.py add_order_item.  confirm is the operator's answer to             *)
(* "Add anyway?".                                                          *)
(***************************************************************************)
\* The closed statuses if orders in progress were treated as closed too.
ClosedStatuses_in_progress == {"Completed", "Cancelled", "In Progress"}

ClosedStatuses == {"Completed", "Cancelled"}

insert_order_item(items, req, unit_price) ==
    Append(items, [order_id   |-> req.order_id,
                   item_id    |-> req.item_id,
                   quantity   |-> req.quantity,
                   unit_price |-> unit_price,
                   special_instructions |-> req.notes])

\* add_order_item with the quantity check off by one (quantity < 0).
add_order_item_allow_zero(ords, items, menu, req, confirm) ==
    LET fail(o) == [outcome |-> o, orders |-> ords, order_items |-> items,
                    writes |-> 0, new_total |-> 0]
    IN
    IF req.quantity < 0 THEN fail("InvalidQuantity")
    ELSE IF req.order_id \notin DOMAIN ords THEN fail("OrderNotFound")
    ELSE IF ords[req.order_id].status \in {"Completed", "Cancelled"} THEN fail("OrderClosed")
    ELSE IF req.item_id \notin DOMAIN menu THEN fail("ItemNotFound")
    ELSE IF ~menu[req.item_id].is_available /\ ~confirm THEN fail("Declined")
    ELSE LET items2 == insert_order_item(items, req, menu[req.item_id].price)
             ords2  == recompute_order(ords, items2, req.order_id)
         IN  [outcome |-> "ItemAdded", orders |-> ords2, order_items |-> items2,
              writes |-> 1, new_total |-> ords2[req.order_id].total]

\* add_order_item reading the order's total before its INSERT.
add_order_item_stale_total(ords, items, menu, req, confirm) ==
    LET fail(o) == [outcome |-> o, orders |-> ords, order_items |-> items,
                    writes |-> 0, new_total |-> 0]
    IN
    IF req.quantity < 1 THEN fail("InvalidQuantity")
    ELSE IF req.order_id \notin DOMAIN ords THEN fail("OrderNotFound")
    ELSE IF ords[req.order_id].status \in ClosedStatuses THEN fail("OrderClosed")
    ELSE IF req.item_id \notin DOMAIN menu THEN fail("ItemNotFound")
    ELSE IF ~menu[req.item_id].is_available /\ ~confirm THEN fail("Declined")
    ELSE LET items2 == insert_order_item(items, req, menu[req.item_id].price)
             ords2  == recompute_order(ords, items2, req.order_id)
         IN  [outcome |-> "ItemAdded", orders |-> ords2, order_items |-> items2,
              writes |-> 1, new_total |-> ords[req.order_id].total]

add_order_item(ords, items, menu, req, confirm) ==
    LET fail(o) == [outcome |-> o, orders |-> ords, order_items |-> items,
                    writes |-> 0, new_total |-> 0]
    IN
    IF req.quantity < 1 THEN fail("InvalidQuantity")
    ELSE IF req.order_id \notin DOMAIN ords THEN fail("OrderNotFound")
    ELSE IF ords[req.order_id].status \in ClosedStatuses THEN fail("OrderClosed")
    ELSE IF req.item_id \notin DOMAIN menu THEN fail("ItemNotFound")
    ELSE IF ~menu[req.item_id].is_available /\ ~confirm THEN fail("Declined")
    ELSE LET items2 == insert_order_item(items, req, menu[req.item_id].price)
             ords2  == recompute_order(ords, items2, req.order_id)
         IN  [outcome |-> "ItemAdded", orders |-> ords2, order_items |-> items2,
              writes |-> 1, new_total |-> ords2[req.order_id].total]

(***************************************************************************)
(* cli.py add_menu_item and update_menu_item.                              *)
(***************************************************************************)
insert_menu_item(menu, req) ==
    Append(menu, [name |-> req.name, description |-> req.description,
                  price |-> req.price, category_id |-> req.category_id,
                  is_available |-> TRUE])

add_menu_item(menu, req) ==
    LET fail(o) == [outcome |-> o, menu_items |-> menu, writes |-> 0]
    IN
    IF req.price <= 0 THEN fail("InvalidPrice")
    ELSE IF req.category_id \notin categories THEN fail("CategoryNotFound")
    ELSE [outcome |-> "MenuItemAdded", menu_items |-> insert_menu_item(menu, req),
          writes |-> 1]

\* An UPDATE that writes all three columns, an availability that was not
\* supplied as its default.
apply_menu_update_all_columns(row, req) ==
    [row EXCEPT
       !.price        = IF req.price # None THEN req.price[1] ELSE @,
       !.is_available = IF req.available # None THEN req.available[1] ELSE TRUE,
       !.description  = IF req.description # None THEN req.description[1] ELSE @]

\* UPDATE menu_items SET <the supplied columns> WHERE item_id = ?
apply_menu_update(row, req) ==
    [row EXCEPT
       !.price        = IF req.price # None THEN req.price[1] ELSE @,
       !.is_available = IF req.available # None THEN req.available[1] ELSE @,
       !.description  = IF req.description # None THEN req.description[1] ELSE @]

\* update_menu_item issuing one UPDATE per supplied field as it goes, the
\* availability and description first, without a rollback.
update_menu_item_eager(menu, req) ==
    LET early == [menu EXCEPT ![req.item_id] =
                     apply_menu_update(@, [req EXCEPT !.price = None])]
    IN
    IF req.price = None /\ req.available = None /\ req.description = None
    THEN [outcome |-> "NoUpdates", menu_items |-> menu, writes |-> 0]
    ELSE IF req.item_id \notin DOMAIN menu
    THEN [outcome |-> "ItemNotFound", menu_items |-> menu, writes |-> 0]
    ELSE IF req.price # None /\ req.price[1] <= 0
    THEN [outcome |-> "InvalidPrice", menu_items |-> early,
          writes |-> IF early = menu THEN 0 ELSE 1]
    ELSE [outcome |-> "MenuItemUpdated",
          menu_items |-> [menu EXCEPT ![req.item_id] = apply_menu_update(@, req)],
          writes |-> 1]

\* update_menu_item dropping a price that is not positive and applying the
\* other supplied fields.
update_menu_item_skip_bad_price(menu, req) ==
    LET fail(o) == [outcome |-> o, menu_items |-> menu, writes |-> 0]
        kept == IF req.price # None /\ req.price[1] <= 0
                THEN [req EXCEPT !.price = None] ELSE req
    IN
    IF req.price = None /\ req.available = None /\ req.description = None
    THEN fail("NoUpdates")
    ELSE IF req.item_id \notin DOMAIN menu THEN fail("ItemNotFound")
    ELSE IF kept.price = None /\ kept.available = None /\ kept.description = None
    THEN fail("InvalidPrice")
    ELSE [outcome |-> "MenuItemUpdated",
          menu_items |-> [menu EXCEPT ![req.item_id] = apply_menu_update(@, kept)],
          writes |-> 1]

update_menu_item(menu, req) ==
    LET fail(o) == [outcome |-> o, menu_items |-> menu, writes |-> 0]
    IN
    IF req.price = None /\ req.available = None /\ req.description = None
    THEN fail("NoUpdates")
    ELSE IF req.item_id \notin DOMAIN menu THEN fail("ItemNotFound")
    ELSE IF req.price # None /\ req.price[1] <= 0 THEN fail("InvalidPrice")
    ELSE [outcome |-> "MenuItemUpdated",
          menu_items |-> [menu EXCEPT ![req.item_id] = apply_menu_update(@, req)],
          writes |-> 1]

(***************************************************************************)
(* Command-line inputs of the server and manager commands.                 *)
(***************************************************************************)
OrderReq(e, t, ty) ==
    [employee_id |-> e, table_id |-> t, customer_id |-> None, order_type |-> ty]

OrderRequests ==
    {OrderReq(1, None, ty) : ty \in {"Dine-In", "Takeout", "Bar", "Delivery"}}
    \cup {OrderReq(2, None, "Dine-In"), OrderReq(9, None, "Dine-In"),
          OrderReq(9, None, "Delivery"), OrderReq(1, Some(9), "Dine-In")}

ItemRequests ==
    [order_id : {1, 9}, item_id : {2, 9}, quantity : {0, 2}, notes : {NULL}]

MenuAddRequests ==
    [name : {"Soup"}, description : {NULL}, price : {0, 799}, category_id : {1, 9}]

MenuUpdateRequests ==
    [item_id : {2, 9}, price : {None, Some(0), Some(1299)},
     available : {None, Some(TRUE), Some(FALSE)},
     description : {None, Some("new")}]

(***************************************************************************)
(* database.py get_db_cursor.  A connection's transaction is the private   *)
(* copy of the tables that its INSERT and UPDATE statements have changed,  *)
(* with the number of such statements executed; SQLite opens it at the     *)
(* first write and lets one connection write at a time.                    *)
(***************************************************************************)
Tables(r, o, i, m) ==
    [reservations |-> r, orders |-> o, order_items |-> i, menu_items |-> m]

NoTx == [writes |-> 0, tables |-> Tables(<<>>, <<>>, <<>>, <<>>)]

\* What the statements of a connection read: its own transaction once it
\* has written, the committed tables before.
visible(committed, v) == IF v.writes > 0 THEN v.tables ELSE committed

\* The committed tables after the context manager exits if it committed on
\* every exit path, without the rollback of the except branch.
get_db_cursor_exit_always_commit(committed, v, raised) ==
    visible(committed, v)

\* The committed tables after the context manager exits: conn.commit() when
\* the body completed, conn.rollback() when it raised.
get_db_cursor_exit(committed, v, raised) ==
    IF raised THEN committed ELSE visible(committed, v)

\* A write statement of a connection: the tables it leaves in the
\* connection's transaction.
write(v, t) == [writes |-> v.writes + 1, tables |-> t]

(***************************************************************************)
(* seed_data.py seed_database, statement group by statement group.  The    *)
(* generated data is cut down to two menu items, one reservation, one      *)
(* order and one order item, with two of the statuses the generators       *)
(* draw; the rows of the tables the other commands only read (categories,  *)
(* customers, employees, tables, shifts) are not kept.                     *)
(***************************************************************************)
SeedStages ==
    << "categories", "menu_items", "customers", "employees", "managers",
       "tables", "shifts", "reservations", "orders", "order_items", "tips" >>

\* 0.15 + (RANDOM() % 11) / 100.0 lies between 0.05 and 0.25; its two
\* extremes, in percent.
TipPcts == {5, 25}

\* ROUND(subtotal * pct / 100, 2) in cents
TipAmount(subtotal, pct) == (subtotal * pct + 50) \div 100

\* UPDATE orders SET tip = ROUND(subtotal * <random>, 2),
\* total = total + ROUND(subtotal * <random>, 2) WHERE status = 'Completed':
\* every outcome of the two draws, row by row.
RECURSIVE TipUpdates(_)
TipUpdates(ords) ==
    IF Len(ords) = 0 THEN {<<>>}
    ELSE LET last == ords[Len(ords)]
             rest == TipUpdates(SubSeq(ords, 1, Len(ords) - 1))
             lasts == IF last.status = "Completed"
                      THEN {[last EXCEPT !.tip = TipAmount(last.subtotal, p1),
                                         !.total = @ + TipAmount(last.subtotal, p2)]
                              : p1 \in TipPcts, p2 \in TipPcts}
                      ELSE {last}
         IN  {Append(r, l) : r \in rest, l \in lasts}

seed_reservation(st) ==
    [customer_id |-> 1, table_id |-> 1, reservation_date |-> Tomorrow,
     reservation_time |-> T1800, party_size |-> 2, status |-> st,
     special_requests |-> NULL]

seed_order(st) ==
    [customer_id |-> None, employee_id |-> 1, table_id |-> Some(1),
     order_type |-> "Dine-In", status |-> st, order_date |-> TodayStr,
     subtotal |-> 0, tax |-> 0, tip |-> 0, total |-> 0]

seed_menu ==
    << [name |-> "Crispy Calamari", description |-> "fried", price |-> 1499,
        category_id |-> 1, is_available |-> TRUE],
       [name |-> "Bruschetta", description |-> "grilled", price |-> 999,
        category_id |-> 1, is_available |-> TRUE] >>

\* seed_database inserting the order items under the placeholder order ids
\* of generate_orders_and_items instead of the ids of order_id_map.
seed_stage_placeholder_ids(stage, t, first_item, first_order) ==
    CASE stage = "menu_items" ->
           {[t EXCEPT !.menu_items = @ \o seed_menu]}
      [] stage = "reservations" ->
           {[t EXCEPT !.reservations = Append(@, seed_reservation(st))]
              : st \in {"Confirmed", "Cancelled"}}
      [] stage = "orders" ->
           {[t EXCEPT !.orders = Append(@, seed_order(st))]
              : st \in {"Open", "Completed"}}
      [] stage = "order_items" ->
           LET items2 == Append(t.order_items,
                                [order_id |-> 1, item_id |-> first_item,
                                 quantity |-> 2,
                                 unit_price |-> t.menu_items[first_item].price,
                                 special_instructions |-> NULL])
           IN  {[t EXCEPT !.order_items = items2,
                          !.orders = recompute_order(@, items2, 1)]}
      [] stage = "tips" ->
           {[t EXCEPT !.orders = o] : o \in TipUpdates(t.orders)}
      [] OTHER -> {t}

\* The tables a statement group can leave, given the tables t it starts
\* from and the position first_item / first_order of the rows this run
\* inserted (cursor.lastrowid).
seed_stage(stage, t, first_item, first_order) ==
    CASE stage = "menu_items" ->
           {[t EXCEPT !.menu_items = @ \o seed_menu]}
      [] stage = "reservations" ->
           {[t EXCEPT !.reservations = Append(@, seed_reservation(st))]
              : st \in {"Confirmed", "Cancelled"}}
      [] stage = "orders" ->
           {[t EXCEPT !.orders = Append(@, seed_order(st))]
              : st \in {"Open", "Completed"}}
      [] stage = "order_items" ->
           LET items2 == Append(t.order_items,
                                [order_id |-> first_order, item_id |-> first_item,
                                 quantity |-> 2,
                                 unit_price |-> t.menu_items[first_item].price,
                                 special_instructions |-> NULL])
           IN  {[t EXCEPT !.order_items = items2,
                          !.orders = recompute_order(@, items2, first_order)]}
      [] stage = "tips" ->
           {[t EXCEPT !.orders = o] : o \in TipUpdates(t.orders)}
      [] OTHER -> {t}

Conns == {1, 2}

\* Requests of two operators working at the same time, with the answer to
\* the capacity prompt: two times ten minutes apart on one table, and a
\* party too large for its table, declined at the prompt.
ConcRequests ==
    { <<Req(1, 1, TodayStr, T1800, 3), TRUE>>,
      <<Req(1, 1, TodayStr, T1810, 3), TRUE>>,
      <<Req(1, 2, TodayStr, T1800, 3), FALSE>> }

NoCmd == [name |-> "none", req |-> Req(0, 0, NULL, NULL, 0), confirm |-> FALSE,
          stage |-> 0, first_item |-> 0, first_order |-> 0]

NoResult == [outcome |-> "None", writes |-> 0, raised |-> FALSE]

(***************************************************************************)
(* Connections.  database.py get_connection, get_db_cursor and             *)
(* init_database, by what they do to a connection: whether it and its      *)
(* cursor are open, whether a transaction is open on it, and whether       *)
(* PRAGMA foreign_keys = ON was executed on it.                            *)
(***************************************************************************)
Handle(fk, by) ==
    [conn |-> "open", cursor |-> "none", tx |-> FALSE, fk |-> fk, by |-> by]

\* sqlite3.connect, then PRAGMA foreign_keys = ON
get_connection(hs) == Append(hs, Handle(TRUE, "get_connection"))

\* conn = get_connection(); cursor = conn.cursor()
get_db_cursor_enter(hs) ==
    LET h == get_connection(hs) IN [h EXCEPT ![Len(h)].cursor = "open"]

\* A statement was executed on the newest connection: its first INSERT,
\* UPDATE or DELETE opens a transaction.
executed(hs, writes) == [hs EXCEPT ![Len(hs)].tx = @ \/ writes > 0]

\* get_db_cursor's exit if the finally clause were skipped when the body
\* raises.
get_db_cursor_leave_no_finally(hs, raised) ==
    IF raised
    THEN [hs EXCEPT ![Len(hs)].tx = FALSE]
    ELSE [hs EXCEPT ![Len(hs)].tx = FALSE,
                    ![Len(hs)].cursor = "closed",
                    ![Len(hs)].conn = "closed"]

\* get_db_cursor's exit: conn.commit() or, if the body raised,
\* conn.rollback(); then cursor.close() and conn.close() in either case.
get_db_cursor_leave(hs, raised) ==
    [hs EXCEPT ![Len(hs)].tx = FALSE,
               ![Len(hs)].cursor = "closed",
               ![Len(hs)].conn = "closed"]

\* init_database: sqlite3.connect(path), without the PRAGMA
init_database_connect(hs) == Append(hs, Handle(FALSE, "init_database"))

\* init_database: commit or rollback, then conn.close() in finally
init_database_close(hs, failed) ==
    [hs EXCEPT ![Len(hs)].tx = FALSE, ![Len(hs)].conn = "closed"]

(***************************************************************************)
(* Command invocations (cli.py).  args holds the command-line values of    *)
(* the command.                                                            *)
(***************************************************************************)
NoArgs == [none |-> TRUE]

\* No invocation under way.
NoInv == [name |-> "none", step |-> "done", ret |-> "done", exists |-> FALSE,
          outcome |-> "None", args |-> NoArgs, confirm |-> FALSE,
          seed |-> FALSE, stage |-> 0, first_item |-> 0, first_order |-> 0,
          view |-> NoTx, listing |-> <<>>]

Invocation(name, args, confirm, seed) ==
    [NoInv EXCEPT !.name = name, !.args = args, !.confirm = confirm,
                  !.seed = seed, !.step = "check", !.ret = "main"]

\* Commands that only run SELECT statements inside get_db_cursor.
ReadOnlyCommands ==
    {"status", "host tables", "host reservations", "server menu",
     "manager report", "manager employees", "manager popular",
     "manager customers"}

WriteCommands ==
    {"host reservation", "server order", "server add-item",
     "manager menu-add", "manager menu-update"}

\* The outcomes with which a command completes its with block; with any
\* other outcome the block is left by an exception.
CompletedOutcomes ==
    {"Created", "OrderCreated", "ItemAdded", "MenuItemAdded",
     "MenuItemUpdated", "Listed"}

\* The validation failures a command raises before it opens its
\* connection.
EarlyFailures ==
    {"InvalidFormat", "PastDate", "InvalidPartySize", "InvalidOrderType",
     "InvalidQuantity", "NoUpdates"}

fails_early(name, o) ==
    o \in EarlyFailures \/ (name = "manager menu-add" /\ o = "InvalidPrice")

\* command_body if the listing commands also purged the reservations they
\* had shown.
command_body_purging(name, args, confirm, t) ==
    IF name \in ReadOnlyCommands
    THEN [outcome |-> "Listed", writes |-> 1,
          tables |-> [t EXCEPT !.reservations = <<>>]]
    ELSE [outcome |-> "Declined", writes |-> 0, tables |-> t]

\* What the with block of a command does to the tables t of a seeded
\* database: the outcome, the tables as the block leaves them in its
\* transaction, and the number of INSERT and UPDATE statements executed.
command_body(name, args, confirm, t) ==
    CASE name = "host reservation" ->
           LET r == create_reservation(t.reservations, args, confirm)
           IN  [outcome |-> r.outcome, writes |-> r.writes,
                tables |-> [t EXCEPT !.reservations = r.reservations]]
      [] name = "server order" ->
           LET r == create_order(t.orders, args)
           IN  [outcome |-> r.outcome, writes |-> r.writes,
                tables |-> [t EXCEPT !.orders = r.orders]]
      [] name = "server add-item" ->
           LET r == add_order_item(t.orders, t.order_items, t.menu_items,
                                   args, confirm)
           IN  [outcome |-> r.outcome, writes |-> r.writes,
                tables |-> [t EXCEPT !.orders = r.orders,
                                     !.order_items = r.order_items]]
      [] name = "manager menu-add" ->
           LET r == add_menu_item(t.menu_items, args)
           IN  [outcome |-> r.outcome, writes |-> r.writes,
                tables |-> [t EXCEPT !.menu_items = r.menu_items]]
      [] name = "manager menu-update" ->
           LET r == update_menu_item(t.menu_items, args)
           IN  [outcome |-> r.outcome, writes |-> r.writes,
                tables |-> [t EXCEPT !.menu_items = r.menu_items]]
      [] name = "host tables" ->
           [outcome |-> view_available_tables(t.reservations, args.date_str,
                                              args.time_str).outcome,
            writes |-> 0, tables |-> t]
      [] OTHER -> [outcome |-> "Listed", writes |-> 0, tables |-> t]

\* get_upcoming_reservations: the reservations ordered by date and time
\* (then by id), as their ids.
Earlier(rows, i, j) ==
    LET d == TextCmp(rows[i].reservation_date, rows[j].reservation_date, 1)
        c == TextCmp(rows[i].reservation_time, rows[j].reservation_time, 1)
    IN  d < 0 \/ (d = 0 /\ (c < 0 \/ (c = 0 /\ i < j)))

RECURSIVE ordered_ids(_, _)
ordered_ids(rows, ids) ==
    IF ids = {} THEN <<>>
    ELSE LET m == CHOOSE i \in ids : \A j \in ids \ {i} : Earlier(rows, i, j)
         IN  <<m>> \o ordered_ids(rows, ids \ {m})

get_upcoming_reservations(rows) == ordered_ids(rows, DOMAIN rows)

ListLimit == 20

\* list_reservations: the optional date filter, then the first 20 rows.
list_reservations(rows, date_str) ==
    LET all == get_upcoming_reservations(rows)
        kept == SelectSeq(all, LAMBDA i :
                   date_str = None \/ rows[i].reservation_date = date_str[1])
    IN  SubSeq(kept, 1, IF Len(kept) < ListLimit THEN Len(kept) ELSE ListLimit)

\* The rows a command prints.
command_listing(name, args, t) ==
    IF name = "host reservations"
    THEN list_reservations(t.reservations, args.date_str)
    ELSE IF name = "host tables"
    THEN view_available_tables(t.reservations, args.date_str,
                               args.time_str).listing
    ELSE <<>>

\* The first lookup of a command fails on a database that has its tables
\* but no rows.
unseeded_failure(name) ==
    CASE name = "host reservation" -> "CustomerNotFound"
      [] name = "server order" -> "EmployeeNotFound"
      [] name = "server add-item" -> "OrderNotFound"
      [] name = "manager menu-add" -> "CategoryNotFound"
      [] name = "manager menu-update" -> "ItemNotFound"
      [] OTHER -> "Listed"

\* The commands typed in the model.
InvokeCommands ==
    {Invocation("init", NoArgs, c, sd) : c \in BOOLEAN, sd \in BOOLEAN}
    \cup {Invocation(n, NoArgs, FALSE, FALSE)
            : n \in {"seed"} \cup (ReadOnlyCommands
                                    \ {"host tables", "host reservations"})}
    \cup {Invocation("host tables", [date_str |-> TodayStr, time_str |-> tm],
                     FALSE, FALSE) : tm \in {T1800, T2400}}
    \cup {Invocation("host reservations", [date_str |-> d], FALSE, FALSE)
            : d \in {None, Some(TodayStr)}}
    \cup {Invocation("host reservation", Req(1, 1, TodayStr, T1800, 3), TRUE, FALSE),
          Invocation("host reservation", Req(1, 1, Yesterday, T1800, 3), TRUE, FALSE),
          Invocation("host reservation", Req(1, 2, TodayStr, T1800, 3), FALSE, FALSE),
          Invocation("server order", OrderReq(1, None, "Dine-In"), FALSE, FALSE),
          Invocation("server order", OrderReq(1, Some(9), "Dine-In"), FALSE, FALSE),
          Invocation("server order", OrderReq(1, None, "Delivery"), FALSE, FALSE)}

inv_vars == <<db_file, inv, handles>>

conn_vars == <<pc, cmd, view, lock, result, seed_runs, db_file, inv, handles>>

vars == <<reservations, orders, order_items, menu_items, outcome,
          pc, cmd, view, lock, result, seed_runs, db_file, inv, handles>>

(***************************************************************************)
(* Database contents left by earlier runs.  seed_database inserts          *)
(* reservations with times such as 18:00 and status Confirmed, Cancelled   *)
(* or No-Show, and orders that are Open, In Progress or Completed; the     *)
(* schema also allows the statuses Seated and Cancelled.                   *)
(***************************************************************************)
SeededReservation(st) ==
    [customer_id |-> 1, table_id |-> 1, reservation_date |-> TodayStr,
     reservation_time |-> T1800, party_size |-> 2, status |-> st,
     special_requests |-> NULL]

SeatedReservation == SeededReservation("Seated")

InitialReservations ==
    {<<>>, <<SeatedReservation>>}
    \cup {<<SeededReservation(st)>> : st \in {"Cancelled", "No-Show"}}

\* An order without items, as create_order or seed_database leave it.
SeededOrder(st) ==
    [customer_id |-> None, employee_id |-> 1, table_id |-> None,
     order_type |-> "Dine-In", status |-> st, order_date |-> TodayStr,
     subtotal |-> 0, tax |-> 0, tip |-> 0, total |-> 0]

CancelledOrder == SeededOrder("Cancelled")

InitialOrders ==
    {<<CancelledOrder>>}
    \cup {<<SeededOrder(st)>> : st \in {"Open", "In Progress", "Completed"}}

\* MENU_DATA: Crispy Calamari 14.99, Bruschetta 9.99
SeededMenu ==
    << [name |-> "Crispy Calamari", description |-> "fried", price |-> 1499,
        category_id |-> 1, is_available |-> TRUE],
       [name |-> "Bruschetta", description |-> "grilled", price |-> 999,
        category_id |-> 1, is_available |-> TRUE] >>

(***************************************************************************)
(* One command invocation per step.                                        *)
(***************************************************************************)
InitConns ==
    /\ pc = [p \in Conns |-> "idle"]
    /\ cmd = [p \in Conns |-> NoCmd]
    /\ view = [p \in Conns |-> NoTx]
    /\ lock = 0
    /\ result = [p \in Conns |-> NoResult]
    /\ seed_runs = 0
    /\ db_file = "ready"
    /\ inv = NoInv
    /\ handles = <<>>

Init ==
    /\ reservations \in InitialReservations
    /\ orders = <<SeededOrder("Open")>>
    /\ order_items = <<>>
    /\ menu_items = SeededMenu
    /\ outcome = "None"
    /\ InitConns

InitEmpty ==
    /\ reservations = <<>>
    /\ orders = <<>>
    /\ order_items = <<>>
    /\ menu_items = SeededMenu
    /\ outcome = "None"
    /\ InitConns

InitServer ==
    /\ reservations = <<>>
    /\ orders \in InitialOrders
    /\ order_items = <<>>
    /\ menu_items = SeededMenu
    /\ outcome = "None"
    /\ InitConns

CreateReservation ==
    \E req \in Requests, confirm \in BOOLEAN :
        \E r \in {create_reservation(reservations, req, confirm)} :
            /\ Len(r.reservations) <= MaxRes
            /\ reservations' = r.reservations
            /\ outcome' = r.outcome
            /\ UNCHANGED <<orders, order_items, menu_items>>
            /\ UNCHANGED conn_vars

CreateOrder ==
    \E req \in OrderRequests :
        \E r \in {create_order(orders, req)} :
            /\ Len(r.orders) <= MaxOrders
            /\ orders' = r.orders
            /\ outcome' = r.outcome
            /\ UNCHANGED <<reservations, order_items, menu_items>>
            /\ UNCHANGED conn_vars

AddOrderItem ==
    \E req \in ItemRequests, confirm \in BOOLEAN :
        \E r \in {add_order_item(orders, order_items, menu_items, req, confirm)} :
            /\ Len(r.order_items) <= MaxItems
            /\ orders' = r.orders
            /\ order_items' = r.order_items
            /\ outcome' = r.outcome
            /\ UNCHANGED <<reservations, menu_items>>
            /\ UNCHANGED conn_vars

AddMenuItem ==
    \E req \in MenuAddRequests :
        \E r \in {add_menu_item(menu_items, req)} :
            /\ Len(r.menu_items) <= MaxMenu
            /\ menu_items' = r.menu_items
            /\ outcome' = r.outcome
            /\ UNCHANGED <<reservations, orders, order_items>>
            /\ UNCHANGED conn_vars

\* update_menu_item if a price change also rewrote the unit price of the
\* item's existing order lines and the amounts of their orders.
UpdateMenuItem_repricing ==
    \E req \in MenuUpdateRequests :
        \E r \in {update_menu_item(menu_items, req)} :
            LET items2 == [i \in DOMAIN order_items |->
                             IF r.outcome = "MenuItemUpdated"
                                /\ order_items[i].item_id = req.item_id
                             THEN [order_items[i] EXCEPT
                                     !.unit_price = r.menu_items[req.item_id].price]
                             ELSE order_items[i]]
            IN
            /\ menu_items' = r.menu_items
            /\ outcome' = r.outcome
            /\ order_items' = items2
            /\ orders' = [k \in DOMAIN orders |->
                            recompute_order(orders, items2, k)[k]]
            /\ UNCHANGED reservations
            /\ UNCHANGED conn_vars

UpdateMenuItem ==
    \E req \in MenuUpdateRequests :
        \E r \in {update_menu_item(menu_items, req)} :
            /\ menu_items' = r.menu_items
            /\ outcome' = r.outcome
            /\ UNCHANGED <<reservations, orders, order_items>>
            /\ UNCHANGED conn_vars

\* The host's command.
Next == CreateReservation

Spec == Init /\ [][Next]_vars

\* Only create_reservation, starting from an empty reservations table.
SpecEmpty == InitEmpty /\ [][CreateReservation]_vars

\* The server's and the manager's commands.
NextServer == CreateOrder \/ AddOrderItem \/ AddMenuItem \/ UpdateMenuItem

SpecServer == InitServer /\ [][NextServer]_vars

\* Every write command, on a database that holds at most MaxRows rows in
\* the four tables.
TotalRows ==
    Len(reservations) + Len(orders) + Len(order_items) + Len(menu_items)

InitAll ==
    /\ reservations = <<>>
    /\ orders = <<SeededOrder("Open")>>
    /\ order_items = <<>>
    /\ menu_items = SeededMenu
    /\ outcome = "None"
    /\ InitConns

NextAll ==
    /\ CreateReservation \/ CreateOrder \/ AddOrderItem \/ AddMenuItem
          \/ UpdateMenuItem
    /\ TotalRows' <= MaxRows

SpecAll == InitAll /\ [][NextAll]_vars

(***************************************************************************)
(* Two connections, one statement per step.  Each runs create_reservation  *)
(* or seed_database inside get_db_cursor.                                  *)
(***************************************************************************)
Committed == Tables(reservations, orders, order_items, menu_items)

SetCommitted(t) ==
    /\ reservations' = t.reservations
    /\ orders' = t.orders
    /\ order_items' = t.order_items
    /\ menu_items' = t.menu_items

\* The body raised exception e: except branch, then finally.
Raise(p, e) ==
    /\ SetCommitted(get_db_cursor_exit(Committed, view[p], TRUE))
    /\ result' = [result EXCEPT ![p] =
                     [outcome |-> e, writes |-> view[p].writes, raised |-> TRUE]]
    /\ lock' = IF lock = p THEN 0 ELSE lock
    /\ view' = [view EXCEPT ![p] = NoTx]
    /\ pc' = [pc EXCEPT ![p] = "idle"]
    /\ cmd' = [cmd EXCEPT ![p] = NoCmd]
    /\ UNCHANGED <<outcome, seed_runs,
                   db_file, inv, handles>>

\* The body completed: conn.commit(), then finally.
Commit(p) ==
    /\ pc[p] = "commit"
    /\ SetCommitted(get_db_cursor_exit(Committed, view[p], FALSE))
    /\ result' = [result EXCEPT ![p] =
                     [outcome |-> IF cmd[p].name = "seed" THEN "Seeded" ELSE "Created",
                      writes |-> view[p].writes, raised |-> FALSE]]
    /\ lock' = IF lock = p THEN 0 ELSE lock
    /\ view' = [view EXCEPT ![p] = NoTx]
    /\ pc' = [pc EXCEPT ![p] = "idle"]
    /\ cmd' = [cmd EXCEPT ![p] = NoCmd]
    /\ UNCHANGED <<outcome, seed_runs,
                   db_file, inv, handles>>

Running(name) == {q \in Conns : cmd[q].name = name}

\* create_reservation passes its argument checks and opens a connection.
StartReservation(p) ==
    /\ pc[p] = "idle"
    /\ Len(reservations) + Cardinality(Running("create_reservation")) < MaxRes
    /\ \E c \in ConcRequests :
          /\ check_arguments(c[1]) = "ok"
          /\ cmd' = [cmd EXCEPT ![p] = [NoCmd EXCEPT !.name = "create_reservation",
                                                     !.req = c[1],
                                                     !.confirm = c[2]]]
    /\ pc' = [pc EXCEPT ![p] = "lookup"]
    /\ UNCHANGED <<reservations, orders, order_items, menu_items, outcome,
                   view, lock, result, seed_runs,
                   db_file, inv, handles>>

\* The SELECTs on customers and tables and the capacity warning.
Lookup(p) ==
    /\ pc[p] = "lookup"
    /\ \E b \in {check_lookups(cmd[p].req, cmd[p].confirm)} :
          IF b # "ok" THEN Raise(p, b)
          ELSE /\ pc' = [pc EXCEPT ![p] = "conflict"]
               /\ UNCHANGED <<reservations, orders, order_items, menu_items,
                              outcome, cmd, view, lock, result, seed_runs,
                   db_file, inv, handles>>

\* The conflict SELECT.
CheckConflict(p) ==
    /\ pc[p] = "conflict"
    /\ IF conflict_rows(visible(Committed, view[p]).reservations,
                        cmd[p].req.table_id, cmd[p].req.date_str,
                        cmd[p].req.time_str) # {}
       THEN Raise(p, "SlotConflict")
       ELSE /\ pc' = [pc EXCEPT ![p] = "insert"]
            /\ UNCHANGED <<reservations, orders, order_items, menu_items,
                           outcome, cmd, view, lock, result, seed_runs,
                   db_file, inv, handles>>

\* The INSERT: it takes the write lock, or fails with "database is locked"
\* when the other connection keeps it beyond the busy timeout.
InsertReservation(p) ==
    /\ pc[p] = "insert"
    /\ IF lock \in {0, p}
       THEN LET t == visible(Committed, view[p]) IN
            /\ lock' = p
            /\ view' = [view EXCEPT ![p] =
                           write(@, [t EXCEPT !.reservations =
                                        insert_reservation(@, cmd[p].req)])]
            /\ pc' = [pc EXCEPT ![p] = "commit"]
            /\ UNCHANGED <<reservations, orders, order_items, menu_items,
                           outcome, cmd, result, seed_runs,
                   db_file, inv, handles>>
       ELSE Raise(p, "DatabaseError")

\* seed_database opens its connection.
StartSeed(p) ==
    /\ pc[p] = "idle"
    /\ seed_runs < MaxSeedRuns
    /\ seed_runs' = seed_runs + 1
    /\ cmd' = [cmd EXCEPT ![p] = [NoCmd EXCEPT !.name = "seed", !.stage = 1]]
    /\ pc' = [pc EXCEPT ![p] = "seed"]
    /\ UNCHANGED <<reservations, orders, order_items, menu_items, outcome,
                   view, lock, result,
                   db_file, inv, handles>>

\* The next statement group of seed_database is executed.
SeedStatement(p) ==
    /\ pc[p] = "seed"
    /\ lock \in {0, p}
    /\ LET t  == visible(Committed, view[p])
           st == SeedStages[cmd[p].stage]
           c  == [cmd[p] EXCEPT
                    !.stage = @ + 1,
                    !.first_item = IF st = "menu_items"
                                   THEN Len(t.menu_items) + 1 ELSE @,
                    !.first_order = IF st = "orders"
                                    THEN Len(t.orders) + 1 ELSE @]
       IN  /\ \E t2 \in seed_stage(st, t, cmd[p].first_item, cmd[p].first_order) :
                 view' = [view EXCEPT ![p] = write(@, t2)]
           /\ cmd' = [cmd EXCEPT ![p] = c]
           /\ pc' = [pc EXCEPT ![p] =
                        IF cmd[p].stage = Len(SeedStages) THEN "commit" ELSE "seed"]
    /\ lock' = p
    /\ UNCHANGED <<reservations, orders, order_items, menu_items, outcome,
                   result, seed_runs,
                   db_file, inv, handles>>

\* A statement of seed_database fails with a database error: a violated
\* constraint, or "database is locked" while the other connection writes.
SeedFails(p) ==
    /\ pc[p] = "seed"
    /\ Raise(p, "DatabaseError")

NextConc ==
    \E p \in Conns :
        \/ StartReservation(p)
        \/ Lookup(p)
        \/ CheckConflict(p)
        \/ InsertReservation(p)
        \/ StartSeed(p)
        \/ SeedStatement(p)
        \/ SeedFails(p)
        \/ Commit(p)

InitConc ==
    /\ reservations = <<>>
    /\ orders = <<>>
    /\ order_items = <<>>
    /\ menu_items = SeededMenu
    /\ outcome = "None"
    /\ InitConns

SpecConc == InitConc /\ [][NextConc]_vars

(***************************************************************************)
(* generate_reservations (seed_data.py) and the statement of seed_database *)
(* that inserts what it returns.  The random choices of one run are the    *)
(* input: the draws in the order they are made, each for one of the days   *)
(* ahead (a skipped day has none) and each a customer, a table, a time of  *)
(* the list, a party size between 1 and the capacity of the table, and a   *)
(* status.                                                                 *)
(***************************************************************************)
T1700 == <<49,55,58,48,48>>
T1730 == <<49,55,58,51,48>>
T1900 == <<49,57,58,48,48>>

reservation_times == {T1700, T1730, T1900}

statuses == {"Confirmed", "Cancelled"}

\* today + timedelta(days = k)
RECURSIVE timedelta(_, _)
timedelta(d, k) ==
    IF k = 0 THEN d
    ELSE timedelta(IF d[3] < DaysIn(d[1], d[2]) THEN <<d[1], d[2], d[3] + 1>>
                   ELSE IF d[2] < 12 THEN <<d[1], d[2] + 1, 1>>
                   ELSE <<d[1] + 1, 1, 1>>, k - 1)

\* The text sqlite3 stores for a date parameter: YYYY-MM-DD.
isoformat(d) ==
    LET dg(n, p) == 48 + ((n \div p) % 10) IN
    <<dg(d[1], 1000), dg(d[1], 100), dg(d[1], 10), dg(d[1], 1), 45,
      dg(d[2], 10), dg(d[2], 1), 45, dg(d[3], 10), dg(d[3], 1)>>

Draws ==
    UNION {[day_offset : 1..MaxDays, customer_id : customers, table_id : {t},
            res_time : reservation_times, party_size : {1, tables[t]},
            status : statuses] : t \in DOMAIN tables}

\* One day of generate_reservations: a draw whose (table, time) was already
\* drawn that day is dropped, every other draw becomes a reservation.
RECURSIVE generate_day(_, _, _)
generate_day(res_date, draws, n) ==
    IF n = 0 THEN <<>>
    ELSE LET d == draws[n]
             time_key == <<d.table_id, d.res_time>>
             day_tables_used == {<<draws[k].table_id, draws[k].res_time>> : k \in 1..(n - 1)}
         IN  generate_day(res_date, draws, n - 1)
             \o (IF time_key \in day_tables_used THEN <<>>
                 ELSE <<[customer_id      |-> d.customer_id,
                         table_id         |-> d.table_id,
                         reservation_date |-> isoformat(res_date),
                         reservation_time |-> d.res_time,
                         party_size       |-> d.party_size,
                         status           |-> d.status,
                         special_requests |-> NULL]>>)

RECURSIVE generate_reservations(_, _)
generate_reservations(day_draws, days) ==
    IF days = 0 THEN <<>>
    ELSE LET of_day(d) == d.day_offset = days
             draws == SelectSeq(day_draws, of_day)
         IN  generate_reservations(day_draws, days - 1)
             \o generate_day(timedelta(Today, days), draws, Len(draws))

\* The random choices of a run: at most MaxDraws draws over MaxDays days,
\* day after day.
DayDraws ==
    {dd \in UNION {[1..n -> Draws] : n \in 0..MaxDraws} :
        \A a, b \in DOMAIN dd : a < b => dd[a].day_offset <= dd[b].day_offset}

\* seed_database, statement 7: the generated reservations are inserted.
SeedReservations ==
    /\ reservations = <<>>
    /\ outcome = "None"
    /\ \E dd \in DayDraws :
          reservations' = reservations \o generate_reservations(dd, MaxDays)
    /\ outcome' = "Seeded"
    /\ UNCHANGED <<orders, order_items, menu_items>>
    /\ UNCHANGED <<pc, cmd, view, lock, result, seed_runs, db_file, inv, handles>>

SpecGenerate == InitEmpty /\ [][SeedReservations]_vars

(***************************************************************************)
(* The manager's customer report (cli.py top_customers).  The query        *)
(* get_above_average_customers is in queries.py; it is modelled as the     *)
(* specification describes it: each customer's spend and order count over  *)
(* completed orders, the average of the spends over the customers that     *)
(* have completed orders, and the customers at or above that average, each *)
(* row annotated with the average.  An average is kept exact, as the pair  *)
(* of the sum and the number of customers.                                 *)
(***************************************************************************)
ReportCustomers == {1, 2, 3}

RECURSIVE completed_spend(_, _, _)
completed_spend(ords, c, n) ==
    IF n = 0 THEN 0
    ELSE completed_spend(ords, c, n - 1)
         + (IF ords[n].status = "Completed" /\ ords[n].customer_id = Some(c)
            THEN ords[n].total ELSE 0)

completed_count(ords, c) ==
    Cardinality({k \in DOMAIN ords : ords[k].status = "Completed"
                                      /\ ords[k].customer_id = Some(c)})

RECURSIVE spend_sum(_, _)
spend_sum(ords, cs) ==
    IF cs = {} THEN 0
    ELSE LET c == CHOOSE x \in cs : TRUE
         IN  completed_spend(ords, c, Len(ords)) + spend_sum(ords, cs \ {c})

\* The rows of a set of customers, highest spend first.
RECURSIVE spend_rows(_, _, _)
spend_rows(ords, cs, avg) ==
    IF cs = {} THEN <<>>
    ELSE LET sp(c) == completed_spend(ords, c, Len(ords))
             m == CHOOSE c \in cs :
                    \A d \in cs \ {c} : sp(c) > sp(d) \/ (sp(c) = sp(d) /\ c < d)
         IN  <<[customer_id |-> m, order_count |-> completed_count(ords, m),
                total_spent |-> sp(m), avg_customer_spending |-> avg]>>
             \o spend_rows(ords, cs \ {m}, avg)

get_above_average_customers(ords) ==
    LET buyers == {c \in ReportCustomers : completed_count(ords, c) > 0}
        avg == <<spend_sum(ords, buyers), Cardinality(buyers)>>
        above == {c \in buyers :
                    completed_spend(ords, c, Len(ords)) * avg[2] >= avg[1]}
    IN  spend_rows(ords, above, avg)

\* results[:limit] for a limit that is not negative
Prefix(rows, limit) ==
    SubSeq(rows, 1, IF Len(rows) < limit THEN Len(rows) ELSE limit)

\* top_customers printing the average of the rows it shows.
top_customers_recomputed(ords, limit) ==
    LET results == get_above_average_customers(ords)
        shown == Prefix(results, limit)
        total == spend_sum(ords, {shown[i].customer_id : i \in DOMAIN shown})
    IN  IF results = <<>>
        THEN [outcome |-> "NoData", avg |-> <<0, 0>>, rows |-> <<>>]
        ELSE [outcome |-> "Listed", avg |-> <<total, Len(shown)>>,
              rows |-> shown]

\* top_customers: "No customer data found." without rows, otherwise the
\* average of the first row in the title and the first limit rows.
top_customers(ords, limit) ==
    LET results == get_above_average_customers(ords) IN
    IF results = <<>>
    THEN [outcome |-> "NoData", avg |-> <<0, 0>>, rows |-> <<>>]
    ELSE [outcome |-> "Listed", avg |-> results[1].avg_customer_spending,
          rows |-> Prefix(results, limit)]

\* Orders of the report's customers: whose they are, whether they are
\* completed, and their total.
ReportOrder(c, st, total) ==
    [SeededOrder(st) EXCEPT !.customer_id = c, !.subtotal = total,
                            !.total = total]

ReportOrders ==
    {ReportOrder(Some(c), st, t) : c \in ReportCustomers,
                                   st \in {"Completed", "Open"},
                                   t \in {10000, 20000, 30000}}
    \cup {ReportOrder(None, "Completed", 10000)}

Limits == {1, 10}

InitReport ==
    /\ reservations = <<>>
    /\ \E n \in 0..MaxReportOrders : orders \in [1..n -> ReportOrders]
    /\ order_items = <<>>
    /\ menu_items = SeededMenu
    /\ outcome = "None"
    /\ InitConns

TopCustomers ==
    /\ inv.step = "done"
    /\ \E limit \in Limits :
          \E r \in {top_customers(orders, limit)} :
             /\ inv' = [NoInv EXCEPT !.name = "manager customers",
                                     !.args = [limit |-> limit],
                                     !.outcome = r.outcome,
                                     !.listing = r]
             /\ outcome' = r.outcome
    /\ UNCHANGED <<reservations, orders, order_items, menu_items>>
    /\ UNCHANGED <<pc, cmd, view, lock, result, seed_runs, db_file, handles>>

SpecReport == InitReport /\ [][TopCustomers]_vars

(***************************************************************************)
(* One operator typing commands one after the other; every connection a    *)
(* command opens and closes is a step.                                     *)
(***************************************************************************)
Finish(o) ==
    /\ inv' = [inv EXCEPT !.step = "done", !.outcome = o]
    /\ outcome' = o

Goto(step) == inv' = [inv EXCEPT !.step = step]

tables_unchanged == UNCHANGED <<reservations, orders, order_items, menu_items>>

conc_unchanged == UNCHANGED <<pc, cmd, view, lock, result>>

\* A command is typed.
StartInvocation ==
    /\ inv.step = "done"
    /\ \E c \in InvokeCommands :
          LET seeds == c.name = "seed" \/ (c.name = "init" /\ c.seed) IN
          /\ seeds => seed_runs < MaxSeedRuns
          /\ seed_runs' = IF seeds THEN seed_runs + 1 ELSE seed_runs
          /\ inv' = c
    /\ handles' = <<>>
    /\ tables_unchanged /\ conc_unchanged
    /\ UNCHANGED <<outcome, db_file>>

\* check_database_exists: returns False without a connection when the file
\* is missing, otherwise enters get_db_cursor.
CheckDatabaseExists ==
    /\ inv.step = "check"
    /\ IF db_file = "missing"
       THEN /\ inv' = [inv EXCEPT !.exists = FALSE, !.step = inv.ret]
            /\ UNCHANGED handles
       ELSE /\ Goto("check_body")
            /\ handles' = get_db_cursor_enter(handles)
    /\ tables_unchanged /\ conc_unchanged
    /\ UNCHANGED <<outcome, db_file, seed_runs>>

\* check_database_exists: the SELECT on sqlite_master and the return from
\* inside the with block; sqlite3.Error (the file is not a database) is
\* caught and gives False.
CheckDatabaseBody ==
    /\ inv.step = "check_body"
    /\ handles' = get_db_cursor_leave(handles, db_file = "corrupt")
    /\ inv' = [inv EXCEPT !.exists = db_file \in {"schema", "ready"},
                          !.step = inv.ret]
    /\ tables_unchanged /\ conc_unchanged
    /\ UNCHANGED <<outcome, db_file, seed_runs>>

\* init whose reset_database leaves the file in place.
MainInit_keep_file ==
    /\ inv.step = "main" /\ inv.name = "init"
    /\ IF inv.exists /\ ~inv.confirm
       THEN Finish("Cancelled")
       ELSE /\ inv' = [inv EXCEPT !.step = "init_database", !.ret = "after_init"]
            /\ UNCHANGED outcome
    /\ tables_unchanged /\ conc_unchanged
    /\ UNCHANGED <<handles, seed_runs, db_file>>

\* init after check_database_exists: the confirmation prompt, then
\* reset_database (which unlinks the file) or init_database.
MainInit ==
    /\ inv.step = "main" /\ inv.name = "init"
    /\ IF inv.exists /\ ~inv.confirm
       THEN Finish("Cancelled") /\ tables_unchanged /\ UNCHANGED db_file
       ELSE /\ inv' = [inv EXCEPT !.step = "init_database", !.ret = "after_init"]
            /\ UNCHANGED outcome
            /\ IF inv.exists
               THEN /\ db_file' = "missing"
                    /\ SetCommitted(Tables(<<>>, <<>>, <<>>, <<>>))
               ELSE tables_unchanged /\ UNCHANGED db_file
    /\ conc_unchanged
    /\ UNCHANGED <<handles, seed_runs>>

\* init after init_database: seed_database if --seed was given.
AfterInit ==
    /\ inv.step = "after_init"
    /\ IF inv.seed THEN Goto("seed_database") /\ UNCHANGED outcome
                   ELSE Finish("Initialized")
    /\ tables_unchanged /\ conc_unchanged
    /\ UNCHANGED <<handles, db_file, seed_runs>>

\* seed after check_database_exists.
MainSeed ==
    /\ inv.step = "main" /\ inv.name = "seed"
    /\ IF inv.exists THEN Goto("seed_database")
       ELSE inv' = [inv EXCEPT !.step = "init_database", !.ret = "seed_database"]
    /\ tables_unchanged /\ conc_unchanged
    /\ UNCHANGED <<outcome, handles, db_file, seed_runs>>

\* init_database: sqlite3.connect(path).
InitDatabaseConnect ==
    /\ inv.step = "init_database"
    /\ handles' = init_database_connect(handles)
    /\ Goto("init_database_script")
    /\ tables_unchanged /\ conc_unchanged
    /\ UNCHANGED <<outcome, db_file, seed_runs>>

\* init_database: executescript and commit, or sqlite3.Error and rollback
\* when the file is not a database; conn.close() in either case.
InitDatabaseScript ==
    /\ inv.step = "init_database_script"
    /\ handles' = init_database_close(handles, db_file = "corrupt")
    /\ db_file' = IF db_file = "missing" THEN "schema" ELSE db_file
    /\ Goto(inv.ret)
    /\ tables_unchanged /\ conc_unchanged
    /\ UNCHANGED <<outcome, seed_runs>>

\* seed_database: its own call of check_database_exists.
SeedDatabase ==
    /\ inv.step = "seed_database"
    /\ inv' = [inv EXCEPT !.step = "check", !.ret = "seed_checked"]
    /\ tables_unchanged /\ conc_unchanged
    /\ UNCHANGED <<outcome, handles, db_file, seed_runs>>

\* seed_database: init_database if the check failed, then get_db_cursor.
SeedChecked ==
    /\ inv.step = "seed_checked"
    /\ IF ~inv.exists
       THEN /\ inv' = [inv EXCEPT !.step = "init_database", !.ret = "seed_open"]
            /\ UNCHANGED handles
       ELSE /\ inv' = [inv EXCEPT !.step = "seed_body", !.stage = 1,
                                  !.view = NoTx]
            /\ handles' = get_db_cursor_enter(handles)
    /\ tables_unchanged /\ conc_unchanged
    /\ UNCHANGED <<outcome, db_file, seed_runs>>

\* seed_database: get_db_cursor after init_database.
SeedOpen ==
    /\ inv.step = "seed_open"
    /\ inv' = [inv EXCEPT !.step = "seed_body", !.stage = 1, !.view = NoTx]
    /\ handles' = get_db_cursor_enter(handles)
    /\ tables_unchanged /\ conc_unchanged
    /\ UNCHANGED <<outcome, db_file, seed_runs>>

\* seed_database: the next statement group; on a file that is not a
\* database the first statement raises.
SeedBody ==
    /\ inv.step = "seed_body"
    /\ db_file # "corrupt"
    /\ LET t  == visible(Committed, inv.view)
           st == SeedStages[inv.stage]
       IN  \E t2 \in seed_stage(st, t, inv.first_item, inv.first_order) :
             inv' = [inv EXCEPT
                       !.view = write(@, t2),
                       !.first_item = IF st = "menu_items"
                                      THEN Len(t.menu_items) + 1 ELSE @,
                       !.first_order = IF st = "orders"
                                       THEN Len(t.orders) + 1 ELSE @,
                       !.stage = @ + 1,
                       !.step = IF inv.stage = Len(SeedStages)
                                THEN "seed_exit" ELSE "seed_body"]
    /\ handles' = executed(handles, 1)
    /\ tables_unchanged /\ conc_unchanged
    /\ UNCHANGED <<outcome, db_file, seed_runs>>

\* seed_database: a statement raises sqlite3.Error, which leaves the with
\* block and the command.
SeedRaises ==
    /\ inv.step = "seed_body"
    /\ SetCommitted(get_db_cursor_exit(Committed, inv.view, TRUE))
    /\ handles' = get_db_cursor_leave(handles, TRUE)
    /\ Finish("DatabaseError")
    /\ conc_unchanged
    /\ UNCHANGED <<db_file, seed_runs>>

\* seed_database: the with block completes.
SeedExit ==
    /\ inv.step = "seed_exit"
    /\ SetCommitted(get_db_cursor_exit(Committed, inv.view, FALSE))
    /\ handles' = get_db_cursor_leave(handles, FALSE)
    /\ db_file' = "ready"
    /\ Finish("Seeded")
    /\ conc_unchanged
    /\ UNCHANGED seed_runs

\* Any other command after check_database_exists: the checks made before a
\* connection is opened, then get_db_cursor.
MainCommand ==
    /\ inv.step = "main" /\ inv.name \notin {"init", "seed"}
    /\ \E r \in {command_body(inv.name, inv.args, inv.confirm, Committed)} :
          IF ~inv.exists
          THEN Finish("NotInitialized") /\ UNCHANGED handles
          ELSE IF fails_early(inv.name, r.outcome)
          THEN Finish(r.outcome) /\ UNCHANGED handles
          ELSE /\ Goto("with_body")
               /\ handles' = get_db_cursor_enter(handles)
               /\ UNCHANGED outcome
    /\ tables_unchanged /\ conc_unchanged
    /\ UNCHANGED <<db_file, seed_runs>>

\* The statements of the command's with block.
WithBody ==
    /\ inv.step = "with_body"
    /\ \E r \in {command_body(inv.name, inv.args, inv.confirm, Committed)} :
          LET o == IF db_file = "schema" THEN unseeded_failure(inv.name)
                   ELSE r.outcome
              w == IF db_file = "schema" THEN 0 ELSE r.writes
          IN  /\ Len(r.tables.reservations) <= MaxRes
              /\ Len(r.tables.orders) <= MaxOrders
              /\ inv' = [inv EXCEPT !.step = "with_exit", !.outcome = o,
                                    !.view = [writes |-> w, tables |-> r.tables],
                                    !.listing = command_listing(inv.name, inv.args,
                                                                Committed)]
              /\ handles' = executed(handles, w)
    /\ tables_unchanged /\ conc_unchanged
    /\ UNCHANGED <<outcome, db_file, seed_runs>>

\* The with block is left: commit, or rollback when the command raised;
\* then the cursor and the connection are closed.
WithExit ==
    /\ inv.step = "with_exit"
    /\ LET raised == inv.outcome \notin CompletedOutcomes IN
       /\ SetCommitted(get_db_cursor_exit(Committed, inv.view, raised))
       /\ handles' = get_db_cursor_leave(handles, raised)
    /\ Finish(inv.outcome)
    /\ conc_unchanged
    /\ UNCHANGED <<db_file, seed_runs>>

NextInvoke ==
    \/ StartInvocation
    \/ CheckDatabaseExists
    \/ CheckDatabaseBody
    \/ MainInit
    \/ AfterInit
    \/ MainSeed
    \/ InitDatabaseConnect
    \/ InitDatabaseScript
    \/ SeedDatabase
    \/ SeedChecked
    \/ SeedOpen
    \/ SeedBody
    \/ SeedRaises
    \/ SeedExit
    \/ MainCommand
    \/ WithBody
    \/ WithExit

InitInvoke ==
    /\ db_file \in {"missing", "corrupt", "ready"}
    /\ reservations = <<>>
    /\ orders = IF db_file = "ready" THEN <<SeededOrder("Open")>> ELSE <<>>
    /\ order_items = <<>>
    /\ menu_items = IF db_file = "ready" THEN SeededMenu ELSE <<>>
    /\ outcome = "None"
    /\ pc = [p \in Conns |-> "idle"]
    /\ cmd = [p \in Conns |-> NoCmd]
    /\ view = [p \in Conns |-> NoTx]
    /\ lock = 0
    /\ result = [p \in Conns |-> NoResult]
    /\ seed_runs = 0
    /\ inv = NoInv
    /\ handles = <<>>

SpecInvoke == InitInvoke /\ [][NextInvoke]_vars

(***************************************************************************)
(* Notions the claims are stated in: the time of day and the calendar date *)
(* a stored text stands for.                                               *)
(***************************************************************************)
MinutesOf(s) == strptime_time(s).minutes

DateOf(s) == strptime_date(s).date

Dist(a, b) == IF a >= b THEN a - b ELSE b - a

\* Row i is a reservation of the requested table and date, in a blocking
\* status, at most 60 minutes away from the requested time.
Near(rows, i, req) ==
    /\ rows[i].table_id = req.table_id
    /\ DateOf(rows[i].reservation_date) = DateOf(req.date_str)
    /\ rows[i].status \in {"Confirmed", "Seated"}
    /\ Dist(MinutesOf(rows[i].reservation_time), MinutesOf(req.time_str)) <= 60

\* The request passes the format, date, party-size, customer and table
\* checks, and the capacity warning does not stop it.
PassesChecks(req, confirm) ==
    /\ strptime_date(req.date_str).ok /\ strptime_time(req.time_str).ok
    /\ ~DateLT(DateOf(req.date_str), Today)
    /\ req.party_size >= 1
    /\ req.customer_id \in customers
    /\ req.table_id \in DOMAIN tables
    /\ (req.party_size <= tables[req.table_id] \/ confirm)

\* C1: a request that passes the checks and has a Confirmed or Seated
\* reservation of the same table and date within 60 minutes (boundaries
\* included, any time of day) fails with the slot-conflict error and leaves
\* the reservations table unchanged.
C1_ConflictRejected ==
    \A req \in Requests, confirm \in BOOLEAN :
        (PassesChecks(req, confirm)
           /\ \E i \in DOMAIN reservations : Near(reservations, i, req))
        => LET r == create_reservation(reservations, req, confirm)
           IN  r.outcome = "SlotConflict" /\ r.reservations = reservations

\* C2: starting from an empty table and running create_reservation only, no
\* two non-cancelled reservations of one table and date are 60 minutes or
\* less apart.
C2_NoOverlap ==
    \A i, j \in DOMAIN reservations :
        (i < j
           /\ reservations[i].table_id = reservations[j].table_id
           /\ DateOf(reservations[i].reservation_date)
                = DateOf(reservations[j].reservation_date)
           /\ reservations[i].status # "Cancelled"
           /\ reservations[j].status # "Cancelled")
        => Dist(MinutesOf(reservations[i].reservation_time),
                MinutesOf(reservations[j].reservation_time)) > 60

\* Is a request for time_str rejected with the slot-conflict error when the
\* table holds exactly one reservation, made from request held?
RejectedBecauseOf(held, req) ==
    create_reservation(insert_reservation(<<>>, held), req, TRUE).outcome
        = "SlotConflict"

\* C4: the slot-conflict relation is symmetric: for two times on the same
\* table and date, a request at t2 is rejected because of a reservation at
\* t1 exactly when a request at t1 is rejected because of one at t2.
C4_ConflictSymmetric ==
    \A i \in DOMAIN reservations :
        \A req \in GoodRequests :
            LET held == Req(reservations[i].customer_id, reservations[i].table_id,
                            reservations[i].reservation_date,
                            reservations[i].reservation_time,
                            reservations[i].party_size)
            IN  (held.table_id = req.table_id /\ held.date_str = req.date_str)
                => (RejectedBecauseOf(held, req) <=> RejectedBecauseOf(req, held))

\* C5: a request that passes the checks succeeds and inserts exactly one row
\* carrying the requested values whenever every reservation of that table
\* and date is Cancelled, No-Show or more than 60 minutes away; the rows of
\* other tables stay as they were.
C5_FreeSlotAccepted ==
    \A req \in Requests, confirm \in BOOLEAN :
        (PassesChecks(req, confirm)
           /\ \A i \in DOMAIN reservations : ~Near(reservations, i, req))
        => LET r == create_reservation(reservations, req, confirm)
           IN  /\ r.outcome = "Created"
               /\ r.reservations = insert_reservation(reservations, req)
               /\ Len(r.reservations) = Len(reservations) + 1
               /\ SubSeq(r.reservations, 1, Len(reservations)) = reservations

(***************************************************************************)
(* The preconditions of create_reservation, each stated on the request and *)
(* the database alone, in the order the claim gives them.                  *)
(***************************************************************************)
WellFormed(req) ==
    strptime_date(req.date_str).ok /\ strptime_time(req.time_str).ok

Violates(k, req, confirm) ==
    CASE k = 1 -> DateLT(DateOf(req.date_str), Today)
      [] k = 2 -> req.party_size < 1
      [] k = 3 -> req.customer_id \notin customers
      [] k = 4 -> req.table_id \notin DOMAIN tables
      [] k = 5 -> req.table_id \in DOMAIN tables
                  /\ req.party_size > tables[req.table_id] /\ ~confirm
      [] k = 6 -> conflict_rows(reservations, req.table_id, req.date_str,
                                req.time_str) # {}

FailureOf(k) ==
    CASE k = 1 -> "PastDate"
      [] k = 2 -> "InvalidPartySize"
      [] k = 3 -> "CustomerNotFound"
      [] k = 4 -> "TableNotFound"
      [] k = 5 -> "Declined"
      [] k = 6 -> "SlotConflict"

\* C6: the preconditions are evaluated in the order past date, party size,
\* customer, table, capacity warning, slot conflict; a request violating
\* several of them ends with the failure of the first one violated, and a
\* request dated today is not rejected by the date check.
C6_CheckOrder ==
    \A req \in Requests, confirm \in BOOLEAN :
        WellFormed(req) =>
            LET r == create_reservation(reservations, req, confirm) IN
            /\ \A k \in 1..6 :
                   (Violates(k, req, confirm)
                      /\ \A j \in 1..(k - 1) : ~Violates(j, req, confirm))
                   => r.outcome = FailureOf(k)
            /\ (DateOf(req.date_str) = Today => r.outcome # "PastDate")

\* A request that is dated in the past, has party size 0 and names a missing
\* customer and a missing table has just been rejected for its date.
C6_Witness ==
    /\ outcome = "PastDate"
    /\ \E req \in Requests :
          /\ \A k \in 1..4 : Violates(k, req, TRUE)
          /\ create_reservation(reservations, req, TRUE).outcome = outcome

(***************************************************************************)
(* Write workflows.                                                        *)
(***************************************************************************)
\* The endings that are validation or business-rule failures.
ValidationFailures ==
    {"InvalidFormat", "PastDate", "InvalidPartySize", "CustomerNotFound",
     "TableNotFound", "Declined", "SlotConflict", "InvalidOrderType",
     "EmployeeNotFound", "InvalidQuantity", "OrderNotFound", "OrderClosed",
     "ItemNotFound", "InvalidPrice", "CategoryNotFound", "NoUpdates"}

Successes == {"Created", "OrderCreated", "ItemAdded", "MenuItemAdded", "MenuItemUpdated"}

\* C7: in create_reservation, create_order, add_order_item, add_menu_item
\* and update_menu_item every validation or business-rule failure is raised
\* before any INSERT or UPDATE has been executed, and a failed invocation
\* leaves the database as it was.
C7_FailuresWriteNothing ==
    /\ \A req \in Requests, confirm \in BOOLEAN :
          LET r == create_reservation(reservations, req, confirm) IN
          /\ r.outcome \in ValidationFailures \cup Successes
          /\ r.outcome \in ValidationFailures => r.writes = 0
          /\ r.outcome \notin Successes => r.reservations = reservations
    /\ \A req \in OrderRequests :
          LET r == create_order(orders, req) IN
          /\ r.outcome \in ValidationFailures => r.writes = 0
          /\ r.outcome \notin Successes => r.orders = orders
    /\ \A req \in ItemRequests, confirm \in BOOLEAN :
          LET r == add_order_item(orders, order_items, menu_items, req, confirm) IN
          /\ r.outcome \in ValidationFailures \cup Successes
          /\ r.outcome \in ValidationFailures => r.writes = 0
          /\ r.outcome \notin Successes
               => r.orders = orders /\ r.order_items = order_items
    /\ \A req \in MenuAddRequests :
          LET r == add_menu_item(menu_items, req) IN
          /\ r.outcome \in ValidationFailures \cup Successes
          /\ r.outcome \in ValidationFailures => r.writes = 0
          /\ r.outcome \notin Successes => r.menu_items = menu_items
    /\ \A req \in MenuUpdateRequests :
          LET r == update_menu_item(menu_items, req) IN
          /\ r.outcome \in ValidationFailures \cup Successes
          /\ r.outcome \in ValidationFailures => r.writes = 0
          /\ r.outcome \notin Successes => r.menu_items = menu_items

\* update_menu_item has just rejected a price although an item had been
\* changed before, and a request with a bad price and other valid fields
\* exists for the stored item.
C7_Witness ==
    /\ outcome = "InvalidPrice"
    /\ menu_items # SeededMenu
    /\ \E req \in MenuUpdateRequests :
          /\ req.item_id \in DOMAIN menu_items
          /\ req.available # None
          /\ update_menu_item(menu_items, req).outcome = "InvalidPrice"

(***************************************************************************)
(* add_order_item.                                                         *)
(***************************************************************************)
\* C8: add_order_item on a Completed or Cancelled order fails and leaves the
\* order's items unchanged; an item is inserted only when the order exists
\* and is neither Completed nor Cancelled; Open and In Progress orders
\* accept items.
C8_ClosedOrderRejected ==
    \A req \in ItemRequests, confirm \in BOOLEAN :
        LET r == add_order_item(orders, order_items, menu_items, req, confirm)
            exists == req.order_id \in DOMAIN orders
        IN
        /\ (exists /\ orders[req.order_id].status \in {"Completed", "Cancelled"})
             => /\ r.outcome \in ValidationFailures
                /\ r.order_items = order_items
        /\ r.order_items # order_items
             => /\ exists
                /\ orders[req.order_id].status \notin {"Completed", "Cancelled"}
        /\ (exists /\ orders[req.order_id].status \in {"Open", "In Progress"}
               /\ req.quantity >= 1 /\ req.item_id \in DOMAIN menu_items
               /\ (menu_items[req.item_id].is_available \/ confirm))
             => /\ r.outcome = "ItemAdded"
                /\ Len(r.order_items) = Len(order_items) + 1
                /\ r.order_items[Len(r.order_items)].order_id = req.order_id

\* An item has just been refused for a Completed order.
C8_Witness ==
    /\ outcome = "OrderClosed"
    /\ orders[1].status = "Completed"
    /\ order_items = <<>>

\* C9: add_order_item with quantity < 1 fails for every order and item,
\* inserts no order_items row and leaves every order's subtotal and total
\* unchanged.
C9_QuantityRejected ==
    \A req \in ItemRequests, confirm \in BOOLEAN :
        req.quantity < 1 =>
            LET r == add_order_item(orders, order_items, menu_items, req, confirm)
            IN  /\ r.outcome = "InvalidQuantity"
                /\ r.order_items = order_items
                /\ \A o \in DOMAIN orders :
                      /\ r.orders[o].subtotal = orders[o].subtotal
                      /\ r.orders[o].total = orders[o].total

\* A quantity below 1 has just been refused for an order that already has
\* an item and a subtotal.
C9_Witness ==
    /\ outcome = "InvalidQuantity"
    /\ Len(order_items) >= 1
    /\ orders[1].subtotal > 0

(***************************************************************************)
(* C3: when two create_reservation workflows for the same table, the same  *)
(* date and times within 60 minutes of each other run at the same time     *)
(* and no conflicting reservation exists beforehand, at most one of them   *)
(* commits a reservation: the committed table never holds two Confirmed    *)
(* reservations of one table and date at most 60 minutes apart.            *)
(***************************************************************************)
C3_AtMostOneCommits ==
    \A i \in DOMAIN reservations, j \in DOMAIN reservations :
        ( /\ i < j
          /\ reservations[i].status = "Confirmed"
          /\ reservations[j].status = "Confirmed"
          /\ reservations[i].table_id = reservations[j].table_id
          /\ reservations[i].reservation_date = reservations[j].reservation_date )
        => Dist(MinutesOf(reservations[i].reservation_time),
                MinutesOf(reservations[j].reservation_time)) > 60

(***************************************************************************)
(* C10: the writes made inside one get_db_cursor context are committed     *)
(* together when the context exits without an exception; when an           *)
(* exception occurs inside it (a validation failure, a declined            *)
(* confirmation, a database error) every write made in the context is      *)
(* rolled back and the exception reaches the caller.  Step by step: while  *)
(* a context is open the committed tables do not change on its account; a  *)
(* context left by an exception leaves them as they were and reports the   *)
(* exception; a context left normally replaces them by everything it       *)
(* wrote.                                                                  *)
(***************************************************************************)
Exits(p) == pc[p] # "idle" /\ pc'[p] = "idle"

C10_ContextAtomic ==
    [][ /\ \A p \in Conns :
             Exits(p) =>
               IF pc[p] = "commit"
               THEN /\ ~result'[p].raised
                    /\ result'[p].writes = view[p].writes
                    /\ view[p].writes > 0 => Committed' = view[p].tables
                    /\ view[p].writes = 0 => Committed' = Committed
               ELSE /\ result'[p].raised
                    /\ result'[p].outcome
                          \in {"Declined", "SlotConflict", "DatabaseError"}
                    /\ Committed' = Committed
        /\ (\A p \in Conns : ~Exits(p)) => Committed' = Committed
      ]_vars

\* One connection's seed run failed after it had written the menu, a
\* reservation and an order, and nothing of it is in the committed tables,
\* while the other connection's reservation is.
C10_Witness ==
    \E p \in Conns, q \in Conns :
        /\ p # q
        /\ result[p].raised
        /\ result[p].outcome = "DatabaseError"
        /\ result[p].writes >= 9
        /\ result[q] = [outcome |-> "Created", writes |-> 1, raised |-> FALSE]
        /\ Len(reservations) = 1
        /\ menu_items = SeededMenu
        /\ orders = <<>>


(***************************************************************************)
(* C11: on every exit path of every operation that acquires a connection   *)
(* (normal return, return from inside the with block, validation failure,  *)
(* database error) the cursor and the connection are closed and no         *)
(* transaction is left open, for get_db_cursor and for init_database's     *)
(* connection: a connection is closed before the next one is opened, and   *)
(* when the command has ended every connection it opened is closed, with   *)
(* its cursor closed and no transaction open.                              *)
(***************************************************************************)
Released(h) == h.conn = "closed" /\ h.cursor # "open" /\ ~h.tx

C11_HandlesReleased ==
    /\ \A i \in DOMAIN handles : i < Len(handles) => Released(handles[i])
    /\ inv.step \notin {"check_body", "init_database_script", "seed_body",
                        "seed_exit", "with_body", "with_exit"}
         => \A i \in DOMAIN handles : Released(handles[i])

\* A seed command on a file that is not a database has ended with a
\* database error after connections of both kinds were opened.
C11_Witness ==
    /\ inv.step = "done"
    /\ inv.outcome = "DatabaseError"
    /\ \E i \in DOMAIN handles : handles[i].by = "init_database"
    /\ \E i \in DOMAIN handles : handles[i].by = "get_connection"
    /\ \A i \in DOMAIN handles : Released(handles[i])

(***************************************************************************)
(* C12: foreign-key enforcement is switched on for every connection the    *)
(* program opens, the one of init_database / reset_database included, so   *)
(* that no committed order references a table or customer that does not    *)
(* exist.                                                                  *)
(***************************************************************************)
C12_ForeignKeysOn ==
    /\ \A i \in DOMAIN handles : handles[i].fk
    /\ \A k \in DOMAIN orders :
          /\ orders[k].table_id = None \/ orders[k].table_id[1] \in DOMAIN tables
          /\ orders[k].customer_id = None \/ orders[k].customer_id[1] \in customers

(***************************************************************************)
(* C13: each command invocation opens exactly one database connection,     *)
(* counting those of check_database_exists, get_db_cursor, init_database   *)
(* and seed_database: never more than one, and one when it has worked on   *)
(* an existing database.                                                   *)
(***************************************************************************)
C13_OneConnection ==
    /\ Len(handles) <= 1
    /\ (inv.step = "done" /\ inv.name # "none" /\ inv.exists)
         => Len(handles) = 1


(***************************************************************************)
(* C14: after create_order and n calls of add_order_item with quantities   *)
(* q1..qn at the prices p1..pn captured at insertion, the order's subtotal *)
(* is the sum of qi*pi over its order_items, its tip is 0 and its total is *)
(* subtotal + tax + tip; the total add_order_item reads back and reports   *)
(* already includes the line just inserted.                                *)
(***************************************************************************)
RECURSIVE LineSum(_, _, _)
LineSum(items, k, n) ==
    IF n = 0 THEN 0
    ELSE LineSum(items, k, n - 1)
         + (IF items[n].order_id = k
            THEN items[n].quantity * items[n].unit_price ELSE 0)

C14_OrderTotals ==
    /\ \A k \in DOMAIN orders :
          /\ orders[k].subtotal = LineSum(order_items, k, Len(order_items))
          /\ orders[k].tip = 0
          /\ orders[k].total = orders[k].subtotal + orders[k].tax + orders[k].tip
    /\ \A req \in ItemRequests, confirm \in BOOLEAN :
          LET r == add_order_item(orders, order_items, menu_items, req, confirm)
              k == req.order_id
          IN  r.outcome = "ItemAdded" =>
                /\ r.orders[k].subtotal
                     = orders[k].subtotal
                       + req.quantity * menu_items[req.item_id].price
                /\ r.new_total = r.orders[k].total
                /\ r.new_total
                     = r.orders[k].subtotal + r.orders[k].tax + r.orders[k].tip
                /\ r.new_total > orders[k].total

\* An order holds two lines captured at different prices.
C14_Witness ==
    /\ outcome = "ItemAdded"
    /\ Len(order_items) = 2
    /\ order_items[1].order_id = order_items[2].order_id
    /\ order_items[1].unit_price # order_items[2].unit_price
    /\ orders[order_items[1].order_id].subtotal
         = order_items[1].quantity * order_items[1].unit_price
           + order_items[2].quantity * order_items[2].unit_price

(***************************************************************************)
(* C15: the unit_price stored by add_order_item is the menu item's price   *)
(* at the moment of insertion, and no later update_menu_item changes the   *)
(* unit_price of an existing order_items row or the subtotal or total of   *)
(* an existing order.  Step by step: existing order lines never change, a  *)
(* new line carries the price the menu had before the step, and a step     *)
(* that adds no line leaves every existing order as it was.                *)
(***************************************************************************)
C15_PriceSnapshot ==
    [][ /\ \A i \in DOMAIN order_items :
             i \in DOMAIN order_items' /\ order_items'[i] = order_items[i]
        /\ Len(order_items') = Len(order_items) + 1
             => LET n == order_items'[Len(order_items')]
                IN  n.unit_price = menu_items[n.item_id].price
        /\ order_items' = order_items
             => \A k \in DOMAIN orders :
                   k \in DOMAIN orders' /\ orders'[k] = orders[k]
      ]_vars

\* The price of a menu item was changed after a line for it was stored; the
\* line and its order still carry the old price.
C15_Witness ==
    /\ outcome = "MenuItemUpdated"
    /\ \E i \in DOMAIN order_items :
          /\ order_items[i].unit_price # menu_items[order_items[i].item_id].price
          /\ orders[order_items[i].order_id].subtotal
               = order_items[i].quantity * order_items[i].unit_price

(***************************************************************************)
(* C16, as stated: create_order inserts exactly one order row with status  *)
(* Open when the order type is Dine-In, Takeout or Bar and the employee    *)
(* exists, whatever the employee's role; with any other order type or a    *)
(* nonexistent employee it fails and inserts no row.                       *)
(***************************************************************************)
InsertsOneOpenOrder(r) ==
    /\ r.outcome = "OrderCreated"
    /\ Len(r.orders) = Len(orders) + 1
    /\ SubSeq(r.orders, 1, Len(orders)) = orders
    /\ r.orders[Len(r.orders)].status = "Open"

C16_CreateOrderAsStated ==
    \A req \in OrderRequests :
        LET r == create_order(orders, req) IN
        IF req.order_type \in {"Dine-In", "Takeout", "Bar"}
           /\ req.employee_id \in DOMAIN employees
        THEN InsertsOneOpenOrder(r)
        ELSE r.outcome \in {"InvalidOrderType", "EmployeeNotFound"}
             /\ r.orders = orders

(***************************************************************************)
(* C16, amended: create_order inserts exactly one order row with status    *)
(* Open when the order type is Dine-In, Takeout or Bar, the employee       *)
(* exists (whatever the role) and the table and customer, if given, exist; *)
(* with a table or customer that does not exist the INSERT is rejected by  *)
(* the foreign key, and with any other order type or a nonexistent         *)
(* employee the command fails; in these cases no row is inserted.          *)
(***************************************************************************)
C16_CreateOrder ==
    \A req \in OrderRequests :
        LET r == create_order(orders, req)
            parents == /\ (req.table_id = None
                             \/ req.table_id[1] \in DOMAIN tables)
                       /\ (req.customer_id = None
                             \/ req.customer_id[1] \in customers)
        IN
        IF req.order_type \in {"Dine-In", "Takeout", "Bar"}
           /\ req.employee_id \in DOMAIN employees
        THEN IF parents THEN InsertsOneOpenOrder(r)
             ELSE r.outcome = "DatabaseError" /\ r.orders = orders
        ELSE r.outcome \in {"InvalidOrderType", "EmployeeNotFound"}
             /\ r.orders = orders

\* An order was created for an employee who is a Cook.
C16_Witness ==
    /\ outcome = "OrderCreated"
    /\ Len(orders) >= 2
    /\ orders[Len(orders)].status = "Open"
    /\ employees[orders[Len(orders)].employee_id] = "Cook"


(***************************************************************************)
(* C17: update_menu_item changes only the fields supplied among price,     *)
(* availability and description: every field of the target item that was   *)
(* not supplied, its name and its category, every other menu item and      *)
(* every other table keep their values.                                    *)
(***************************************************************************)
C17_OnlySuppliedFields ==
    \A req \in MenuUpdateRequests :
        LET r == command_body("manager menu-update", req, FALSE, Committed)
            m == r.tables.menu_items
        IN
        /\ r.tables.reservations = reservations
        /\ r.tables.orders = orders
        /\ r.tables.order_items = order_items
        /\ DOMAIN m = DOMAIN menu_items
        /\ \A j \in DOMAIN menu_items :
              /\ j # req.item_id => m[j] = menu_items[j]
              /\ m[j].name = menu_items[j].name
              /\ m[j].category_id = menu_items[j].category_id
              /\ req.price = None => m[j].price = menu_items[j].price
              /\ req.available = None
                   => m[j].is_available = menu_items[j].is_available
              /\ req.description = None
                   => m[j].description = menu_items[j].description
        /\ (r.outcome = "MenuItemUpdated")
             => /\ req.price # None => m[req.item_id].price = req.price[1]
                /\ req.available # None
                     => m[req.item_id].is_available = req.available[1]
                /\ req.description # None
                     => m[req.item_id].description = req.description[1]

\* Item 2 got a new price and was made unavailable by updates that did not
\* supply a description; its description and item 1 are as seeded.
C17_Witness ==
    /\ outcome = "MenuItemUpdated"
    /\ menu_items[2].price = 1299
    /\ ~menu_items[2].is_available
    /\ menu_items[2].description = SeededMenu[2].description
    /\ menu_items[2].name = SeededMenu[2].name
    /\ menu_items[1] = SeededMenu[1]

(***************************************************************************)
(* C18: update_menu_item fails without changing any row when none of       *)
(* price, availability and description is supplied, and also when a        *)
(* supplied price is <= 0, even if availability or description are         *)
(* supplied in the same request.                                           *)
(***************************************************************************)
C18_UpdateRejected ==
    \A req \in MenuUpdateRequests :
        LET r == update_menu_item(menu_items, req) IN
        /\ (req.price = None /\ req.available = None /\ req.description = None)
             => r.outcome = "NoUpdates" /\ r.menu_items = menu_items
        /\ (req.price # None /\ req.price[1] <= 0)
             => /\ r.outcome \in {"InvalidPrice", "ItemNotFound"}
                /\ req.item_id \in DOMAIN menu_items => r.outcome = "InvalidPrice"
                /\ r.menu_items = menu_items
                /\ r.writes = 0

\* A price that is not positive has just been refused for an item that
\* earlier updates had changed.
C18_Witness ==
    /\ outcome = "InvalidPrice"
    /\ menu_items[2].price = 1299
    /\ ~menu_items[2].is_available
    /\ \E req \in MenuUpdateRequests :
          /\ req.item_id = 2 /\ req.price = Some(0) /\ req.available = Some(TRUE)
          /\ update_menu_item(menu_items, req).menu_items = menu_items

(***************************************************************************)
(* C19: when the party is larger than the table's capacity                 *)
(* (create_reservation) or the menu item is unavailable (add_order_item),  *)
(* the row is inserted if and only if the operator confirms and all later  *)
(* checks pass; if the operator declines, the operation ends with no row   *)
(* inserted and no other state change.                                     *)
(***************************************************************************)
OverCapacity(req) ==
    /\ check_arguments(req) = "ok"
    /\ req.customer_id \in customers
    /\ req.table_id \in DOMAIN tables
    /\ req.party_size > tables[req.table_id]

UnavailableItem(req) ==
    /\ req.quantity >= 1
    /\ req.order_id \in DOMAIN orders
    /\ orders[req.order_id].status \notin {"Completed", "Cancelled"}
    /\ req.item_id \in DOMAIN menu_items
    /\ ~menu_items[req.item_id].is_available

C19_SoftWarnings ==
    /\ \A req \in Requests :
          OverCapacity(req) =>
            LET yes == command_body("host reservation", req, TRUE, Committed)
                no  == command_body("host reservation", req, FALSE, Committed)
                free == conflict_rows(reservations, req.table_id,
                                      req.date_str, req.time_str) = {}
            IN  /\ no.outcome = "Declined"
                /\ no.tables = Committed
                /\ no.writes = 0
                /\ free <=> yes.outcome = "Created"
                /\ free <=> Len(yes.tables.reservations) = Len(reservations) + 1
                /\ ~free => yes.tables = Committed
    /\ \A req \in ItemRequests :
          UnavailableItem(req) =>
            LET yes == command_body("server add-item", req, TRUE, Committed)
                no  == command_body("server add-item", req, FALSE, Committed)
            IN  /\ no.outcome = "Declined"
                /\ no.tables = Committed
                /\ no.writes = 0
                /\ yes.outcome = "ItemAdded"
                /\ Len(yes.tables.order_items) = Len(order_items) + 1

\* The operator has just declined a prompt while an item is unavailable
\* and a table is booked beyond its capacity.
C19_Witness ==
    /\ outcome = "Declined"
    /\ \E req \in ItemRequests : UnavailableItem(req)
    /\ \E i \in DOMAIN reservations :
          reservations[i].party_size > tables[reservations[i].table_id]


(***************************************************************************)
(* C20: the read-only commands (host tables, host reservations, server     *)
(* menu, manager report, manager employees, manager popular, manager       *)
(* customers, status) leave every table unchanged, so that listing the     *)
(* upcoming reservations twice with no write in between gives identical    *)
(* result sets: no step of a read-only command changes a table, and when   *)
(* the listing has ended, listing the tables as they are now gives the     *)
(* rows it printed.                                                        *)
(***************************************************************************)
C20_ReadOnly ==
    [][ /\ (inv.name \in ReadOnlyCommands /\ inv.step # "done")
             => Committed' = Committed
        /\ (inv'.name = "host reservations" /\ inv'.step = "done"
               /\ inv'.outcome = "Listed")
             => inv'.listing
                  = list_reservations(reservations', inv'.args.date_str)
      ]_vars

\* The listing has ended having printed two reservations, the one created
\* later first because its date is earlier.
C20_Witness ==
    /\ inv.name = "host reservations"
    /\ inv.step = "done"
    /\ inv.outcome = "Listed"
    /\ inv.listing = <<2, 1>>
    /\ Len(reservations) = 2


(***************************************************************************)
(* C21: the above-average-customers report returns exactly the customers   *)
(* whose completed-order spend is at least the average spend over all      *)
(* customers with completed orders, every returned row carries that        *)
(* average, and the average top_customers shows (from the first returned   *)
(* row) is that average.                                                   *)
(***************************************************************************)
SpendOf(c) ==
    LET mine == {k \in DOMAIN orders : orders[k].status = "Completed"
                                        /\ orders[k].customer_id = <<c>>}
        f[S \in SUBSET mine] ==
            IF S = {} THEN 0
            ELSE LET k == CHOOSE x \in S : TRUE
                 IN  orders[k].total + f[S \ {k}]
    IN  f[mine]

Buyers ==
    {c \in ReportCustomers :
        \E k \in DOMAIN orders : orders[k].status = "Completed"
                                  /\ orders[k].customer_id = <<c>>}

SameAverage(a, total, count) == a[1] * count = total * a[2] /\ a[2] > 0

C21_AboveAverage ==
    LET rows == get_above_average_customers(orders)
        total == LET g[S \in SUBSET Buyers] ==
                        IF S = {} THEN 0
                        ELSE LET c == CHOOSE x \in S : TRUE
                             IN  SpendOf(c) + g[S \ {c}]
                 IN  g[Buyers]
        count == Cardinality(Buyers)
    IN
    /\ {rows[i].customer_id : i \in DOMAIN rows}
         = {c \in Buyers : SpendOf(c) * count >= total}
    /\ \A i \in DOMAIN rows, j \in DOMAIN rows :
          i # j => rows[i].customer_id # rows[j].customer_id
    /\ \A i \in DOMAIN rows :
          /\ SameAverage(rows[i].avg_customer_spending, total, count)
          /\ rows[i].total_spent = SpendOf(rows[i].customer_id)
    /\ \A limit \in Limits :
          LET r == top_customers(orders, limit) IN
          IF Buyers = {} THEN r.outcome = "NoData"
          ELSE r.outcome = "Listed" /\ SameAverage(r.avg, total, count)

\* The report has been printed for spends of 100.00, 200.00 and 300.00: it
\* shows the average 200.00 and holds the customers with 300.00 and 200.00.
C21_Witness ==
    /\ inv.name = "manager customers"
    /\ inv.outcome = "Listed"
    /\ {SpendOf(c) : c \in ReportCustomers} = {10000, 20000, 30000}
    /\ inv.args.limit = 10
    /\ inv.listing.avg = <<60000, 3>>
    /\ Len(inv.listing.rows) = 2
    /\ inv.listing.rows[1].total_spent = 30000
    /\ inv.listing.rows[2].total_spent = 20000


(***************************************************************************)
(* C23: the reservations generate_reservations produces and seed_database  *)
(* inserts satisfy the table invariant: no two of them that are not        *)
(* cancelled are for the same table and date with times within 60 minutes  *)
(* of each other; each is dated strictly after today and has a party size  *)
(* between 1 and the capacity of its table.                                *)
(***************************************************************************)
C23_GeneratedReservations ==
    outcome = "Seeded" =>
      /\ \A i \in DOMAIN reservations, j \in DOMAIN reservations :
            (i # j
               /\ reservations[i].table_id = reservations[j].table_id
               /\ reservations[i].reservation_date = reservations[j].reservation_date
               /\ "Cancelled" \notin {reservations[i].status, reservations[j].status})
            => Dist(MinutesOf(reservations[i].reservation_time),
                    MinutesOf(reservations[j].reservation_time)) >= 60
      /\ \A i \in DOMAIN reservations :
            /\ DateLT(Today, DateOf(reservations[i].reservation_date))
            /\ reservations[i].party_size \in 1..tables[reservations[i].table_id]


(***************************************************************************)
(* C22: after seed_database completes every order row has                  *)
(* total = subtotal + tax + tip, the completed orders whose tip the final  *)
(* UPDATE sets included (the tip stored and the amount added to the total  *)
(* are the same number), and the tip stored for a completed order is       *)
(* between 15% and 25% of its subtotal (to the cent).                      *)
(***************************************************************************)
C22_SeededTotals ==
    (inv.step = "done" /\ inv.outcome = "Seeded") =>
      \A k \in DOMAIN orders :
         /\ orders[k].total = orders[k].subtotal + orders[k].tax + orders[k].tip
         /\ orders[k].status = "Completed" =>
               /\ 100 * orders[k].tip + 50 >= 15 * orders[k].subtotal
               /\ 100 * orders[k].tip - 50 <= 25 * orders[k].subtotal


(***************************************************************************)
(* C24: a failure of schema initialization is a terminal failure of the    *)
(* init command: when init_database does not succeed (the file is not a    *)
(* database, so it returns False), init does not go on to seed_database    *)
(* and does not report that the database was initialized.                  *)
(***************************************************************************)
C24_InitFailureSurfaced ==
    (inv.name = "init" /\ db_file = "corrupt") =>
       /\ inv.step \notin {"seed_database", "seed_checked", "seed_open",
                            "seed_body", "seed_exit"}
       /\ inv.ret \notin {"seed_database", "seed_checked", "seed_open"}
       /\ ~(inv.step = "done" /\ inv.outcome \in {"Initialized", "Seeded"})


(***************************************************************************)
(* C25: the availability listing and the reservation conflict check agree: *)
(* for every active table T, date D and time t, "host tables D t" lists T  *)
(* exactly when a create_reservation request for (T, D, t) that passes all *)
(* other preconditions is not rejected with the slot-conflict error in the *)
(* same database state (the state between two commands).                   *)
(***************************************************************************)
NotRejected(T, D, t) ==
    create_reservation(reservations, Req(1, T, D, t, 1), TRUE).outcome
      # "SlotConflict"

Lists(listing, T) == \E k \in DOMAIN listing : listing[k] = T

C25_ListingAgrees ==
    /\ inv.step = "done"
          => \A T \in DOMAIN tables, D \in {TodayStr, Tomorrow},
                t \in {T1800, T0130} :
                (is_active[T] /\ PassesChecks(Req(1, T, D, t, 1), TRUE))
                  => (Lists(view_available_tables(reservations, D, t).listing, T)
                        <=> NotRejected(T, D, t))
    /\ (inv.name = "host tables" /\ inv.step = "done" /\ inv.outcome = "Listed")
          => \A T \in DOMAIN tables :
               (is_active[T]
                  /\ PassesChecks(Req(1, T, inv.args.date_str,
                                      inv.args.time_str, 1), TRUE))
                 => (Lists(inv.listing, T)
                       <=> NotRejected(T, inv.args.date_str, inv.args.time_str))

\* "host tables" for today at 18:00 has listed table 2 only, table 1 having
\* a confirmed reservation at that time, for which a request is rejected.
C25_Witness ==
    /\ inv.name = "host tables" /\ inv.step = "done" /\ inv.outcome = "Listed"
    /\ inv.args.date_str = TodayStr /\ inv.args.time_str = T1800
    /\ inv.listing = <<2>>
    /\ \E k \in DOMAIN reservations :
          /\ reservations[k].table_id = 1
          /\ reservations[k].status = "Confirmed"
          /\ reservations[k].reservation_date = TodayStr
    /\ ~NotRejected(1, TodayStr, T1800)
    /\ NotRejected(2, TodayStr, T1800)


(***************************************************************************)
(* C26: init on an already initialized database changes nothing when the   *)
(* operator declines the confirmation (all rows and the schema are kept    *)
(* and nothing is seeded, --seed or not); when the operator confirms, the  *)
(* rows that existed are gone with the file, and the command leaves a      *)
(* database with the schema and no row but those this run seeded.          *)
(***************************************************************************)
NoRows == Tables(<<>>, <<>>, <<>>, <<>>)

C26_InitOnExisting ==
    [][ /\ (inv.name = "init" /\ inv.step \in {"check", "check_body"})
             => (Committed' = Committed /\ db_file' = db_file)
        /\ (inv.name = "init" /\ inv.step = "main" /\ inv.exists)
             => IF ~inv.confirm
                THEN /\ inv'.step = "done" /\ inv'.outcome = "Cancelled"
                     /\ Committed' = Committed /\ db_file' = db_file
                ELSE Committed' = NoRows /\ db_file' = "missing"
        /\ (inv.name = "init" /\ inv.step # "done" /\ inv'.step = "done"
               /\ inv'.outcome # "Cancelled" /\ db_file' # "corrupt")
             => /\ db_file' \in {"schema", "ready"}
                /\ ~inv.seed => Committed' = NoRows
                /\ Len(reservations') <= 1 /\ Len(orders') <= 1
                /\ Len(order_items') <= 1
                /\ Len(menu_items') <= Len(seed_menu)
      ]_vars

\* init, confirmed on a database that existed, has ended: the file holds
\* the schema and no row.
C26_Witness ==
    /\ inv.name = "init" /\ inv.step = "done" /\ inv.outcome = "Initialized"
    /\ inv.exists /\ inv.confirm /\ ~inv.seed
    /\ db_file = "schema"
    /\ Committed = NoRows


(***************************************************************************)
(* C27: seed_database is all-or-nothing: its inserts and updates run in    *)
(* one get_db_cursor transaction, so nothing it wrote is visible while it  *)
(* runs or after a statement of it failed, everything is committed at once *)
(* when it succeeds, and then every order_items row it inserted references *)
(* an order inserted in the same run.                                      *)
(***************************************************************************)
C27_SeedAllOrNothing ==
    [][ /\ (inv.step = "seed_body" /\ inv'.step # "done")
             => Committed' = Committed
        /\ (inv.step = "seed_body" /\ inv'.step = "done")
             => (inv'.outcome = "DatabaseError" /\ Committed' = Committed)
        /\ inv.step = "seed_exit"
             => /\ inv'.step = "done" /\ inv'.outcome = "Seeded"
                /\ Committed' = inv.view.tables
                /\ \A k \in DOMAIN order_items' \ DOMAIN order_items :
                      order_items'[k].order_id
                        \in DOMAIN orders' \ DOMAIN orders
      ]_vars

\* seed has ended on a database that held an order: the order item it
\* inserted belongs to the order it inserted.
C27_Witness ==
    /\ inv.name = "seed" /\ inv.step = "done" /\ inv.outcome = "Seeded"
    /\ Len(orders) = 2
    /\ Len(order_items) = 1
    /\ order_items[1].order_id = 2

====
